---- MODULE Spec2Model ----
(***************************************************************************)
(* State-machine model of the hotel WhatsApp ordering bot.                 *)
(*                                                                         *)
(* The repository holds several generations of the same bot.  The variable *)
(* `variant` says which program is running:                                *)
(*   "Combined"  src/Combined.js          multi-tenant, whatsapp-web.js    *)
(*   "script"    src/script.js            single tenant, Baileys           *)
(*   "simple"    src/unnamed/part_001:1-334    single tenant, Baileys      *)
(*   "pg"        src/unnamed/part_001:335-866  single tenant, Baileys, SQL *)
(*                                                                         *)
(* Transport (external collaborator), as assumed by every specification:   *)
(* a handle delivers events only to subscriptions that are still attached; *)
(* it reports closure at most once and delivers nothing afterwards.        *)
(***************************************************************************)
EXTENDS Integers, Sequences, FiniteSets, TLC

VARIABLES
    variant,          \* which program of the repository is running
    \* ---- session lifecycle ----
    handles,          \* every transport handle created so far (index = handle id)
    activeClients,    \* Combined.js: phone -> handle id
    clientStates,     \* Combined.js: phone -> { isConnected, isDestroying }
    hotelQRs,         \* Combined.js: phone -> QR data; pg: server-side QR, tenant "h1"
    sock,             \* Baileys variants: the module-level socket
    pendingStarts,    \* Baileys variants: startBotConnection() calls awaiting the auth state
    credStore,        \* tenant -> stored credentials ("auth" directory / LocalAuth session)
    lastClosure,      \* tenant -> reason of the last closure handled since the last handle was created
    \* ---- guest conversations ----
    userStates,       \* guest identity -> reference of its conversation object
    objs,             \* heap of conversation objects
    \* ---- message deduplication ----
    processedMessageIds,  \* the Set of processed message ids, in insertion order
    nextMsgId,        \* transport: the id the next new message gets
    delivered,        \* transport: deliveries made in this run
    inflight,         \* downstream handling calls that have not returned yet
    fed,              \* per id: deliveries that reached the deduplicator (counted up to FedCap)
    passes,           \* per id: deliveries that passed the filter
    evictions,        \* per id: how often the id was evicted from the window
    insertLog,        \* every id inserted into the window, in order
    \* ---- message handling and orders ----
    handlers,         \* message handlers suspended at an awaited send
    orders,           \* tenant -> its stored orders (orders file)
    now,              \* Date.now()
    cartChangedBy,    \* texts whose handler, started in awaiting confirmation, changed the cart
    notifications,    \* sends issued about an order: [tenant, to, kind, orderId]
    failedSends,      \* sends about an order that failed: [tenant, to, kind, orderId]
    timers,           \* script.js: pending setTimeout callbacks of placeOrder
    \* ---- part_001 (pg): menu-driven conversation ----
    pgStates,         \* userStates: guest -> { state, room, tempOrder }
    pgHandlers,       \* handlers (and timer callbacks) suspended at an await
    tempOrders,       \* heap of tempOrder objects: reference -> quantity of the item
    pgOrders,         \* the orders table
    pgTimers,         \* pending setTimeout callbacks of placeOrder
    \* ---- parseUserMessage on its own ----
    parseText,        \* the message, lower-cased and trimmed, as its sequence of words
    parseCart,        \* currentState.items
    parseResult       \* what parseUserMessage returned

sessVars == <<handles, activeClients, clientStates, hotelQRs, sock, pendingStarts,
              credStore, lastClosure>>
convVars == <<userStates, objs>>
dedupVars == <<processedMessageIds, nextMsgId, delivered, inflight, fed, passes, evictions, insertLog>>
ordVars == <<handlers, orders, now, cartChangedBy, notifications, failedSends, timers>>
pgVars == <<pgStates, pgHandlers, tempOrders, pgOrders, pgTimers>>
parseVars == <<parseText, parseCart, parseResult>>
vars == <<variant, sessVars, convVars, dedupVars, ordVars, pgVars, parseVars>>

-----------------------------------------------------------------------------
(* Bounds and value sets *)

MaxHandles == 3

Tenants == {"h1", "h2"}
Guests == {"g1"}
BaileysTenant == "h1"
BaileysVariants == {"script", "pg"}
SessionVariants == {"Combined", "script", "pg"}
QrCodes == {"qrA", "qrB"}
KnownReasons == {"badSession", "connectionClosed", "connectionLost", "loggedOut",
                 "restartRequired", "timedOut"}
\* closure reasons the transport reports in the model: a transient one, the two that need
\* fresh credentials, and one the programs do not know
Reasons == {"connectionLost", "loggedOut", "badSession", "unknown"}

NoHandle == 0
NoState == [present |-> FALSE, isConnected |-> FALSE, isDestroying |-> FALSE]
NoQR == "none"
NoRoom == "none"
EmptyCart == <<>>
\* episode: the message whose handler sent the order summary the conversation is awaiting
\* confirmation of (not a field of the program's object)
NoObj == [used |-> FALSE, awaitingConfirmation |-> FALSE, items |-> EmptyCart, room |-> NoRoom,
          awaitingRating |-> FALSE, lastOrderId |-> 0, hotelPhone |-> "none", episode |-> 0]
MaxObjs == 3
ObjIds == 1..MaxObjs

\* processedMessageIds.size > 100
DedupCapacity == 100
\* deliveries the transport makes in one run of the deduplication specification
MaxDeliveries == 5
\* downstream handling calls in flight at once
MaxInFlight == 2
\* the transport may deliver again the OldDup oldest and the RecentDup newest messages
OldDup == 2
RecentDup == 2
FedCap == 2
MsgIds == 1..(DedupCapacity + MaxDeliveries)

-----------------------------------------------------------------------------
(* The mutable maps of the program as one value, so that a function of the  *)
(* program that calls another one composes.                                 *)

Store ==
    [handles |-> handles, activeClients |-> activeClients, clientStates |-> clientStates,
     hotelQRs |-> hotelQRs, userStates |-> userStates, objs |-> objs]

isClientConnected(S, phone) ==
    IF S.clientStates[phone].present
    THEN S.clientStates[phone].isConnected /\ ~S.clientStates[phone].isDestroying
    ELSE FALSE

disconnectBotForHotel(S, phone) ==
    LET client == S.activeClients[phone] IN
    [S EXCEPT
       \* client.removeAllListeners(); client.destroy()
       !.handles = IF client # NoHandle
                   THEN [S.handles EXCEPT ![client].attached = FALSE,
                                          ![client].conn = "closed"]
                   ELSE S.handles,
       !.activeClients[phone] = NoHandle,
       !.clientStates[phone] = NoState,
       !.hotelQRs[phone] = NoQR,
       \* for (const [key, value] of userStates) if (value.hotelPhone === phone) delete
       !.userStates = [g \in Guests |->
                         IF S.userStates[g] # 0 /\ S.objs[S.userStates[g]].hotelPhone = phone
                         THEN 0 ELSE S.userStates[g]]]

NewHandle(phone) ==
    [tenant |-> phone, attached |-> TRUE, conn |-> "connecting", init |-> "pending",
     render |-> NoQR]

\* Mutant of startBotForHotel: the existing client is not cleaned up first.
startBotForHotel_noCleanup(S, phone) ==
    IF S.activeClients[phone] # NoHandle /\ isClientConnected(S, phone)
    THEN S
    ELSE [S EXCEPT
            !.clientStates[phone] = [present |-> TRUE, isConnected |-> FALSE, isDestroying |-> FALSE],
            !.handles = Append(S.handles, NewHandle(phone)),
            !.activeClients[phone] = Len(S.handles) + 1]

\* The synchronous part of startBotForHotel, up to `await client.initialize()`.
startBotForHotel(S, phone) ==
    IF S.activeClients[phone] # NoHandle /\ isClientConnected(S, phone)
    THEN S
    ELSE LET D == disconnectBotForHotel(S, phone) IN
         [D EXCEPT
            !.clientStates[phone] = [present |-> TRUE, isConnected |-> FALSE, isDestroying |-> FALSE],
            !.handles = Append(D.handles, NewHandle(phone)),
            !.activeClients[phone] = Len(D.handles) + 1]

\* Whether startBotForHotel would create a handle (used to cap the handle count).
CreatesHandle(S, phone) ==
    ~(S.activeClients[phone] # NoHandle /\ isClientConnected(S, phone))

\* Objects no map entry refers to are garbage.
\* Objects neither in userStates nor held by a suspended handler are garbage.
CollectWith(S, hs) ==
    [S EXCEPT !.objs = [o \in ObjIds |->
                          IF (\E g \in Guests : S.userStates[g] = o) \/ (\E hd \in hs : hd.obj = o)
                          THEN S.objs[o] ELSE NoObj]]

Collect(S) == CollectWith(S, handlers)

Commit(S) ==
    LET C == Collect(S) IN
    /\ handles' = C.handles
    /\ activeClients' = C.activeClients
    /\ clientStates' = C.clientStates
    /\ hotelQRs' = C.hotelQRs
    /\ userStates' = C.userStates
    /\ objs' = C.objs

HandleIds == 1..Len(handles)

\* An event of handle h reaches the program's handlers.
CanDeliver(h) == handles[h].attached /\ handles[h].conn # "closed"

-----------------------------------------------------------------------------
(* Combined.js: session lifecycle *)

\* initializeHotelBots / any direct call of startBotForHotel(phone, name)
Activate(phone) ==
    /\ variant = "Combined"
    /\ CreatesHandle(Store, phone) => Len(handles) < MaxHandles
    /\ Commit(startBotForHotel(Store, phone))
    /\ lastClosure' = IF CreatesHandle(Store, phone)
                      THEN [lastClosure EXCEPT ![phone] = "none"] ELSE lastClosure
    /\ UNCHANGED <<parseVars, pgVars, ordVars, dedupVars, variant, sock, pendingStarts, credStore>>

\* Mutant of postConnect: the route starts the bot without looking at the connection state.
postConnect_alwaysStarts(S, phone) ==
    LET D == disconnectBotForHotel(S, phone) IN
    [D EXCEPT
       !.clientStates[phone] = [present |-> TRUE, isConnected |-> FALSE, isDestroying |-> FALSE],
       !.handles = Append(D.handles, NewHandle(phone)),
       !.activeClients[phone] = Len(D.handles) + 1]

\* POST /api/superadmin/hotels/:id/connect, the maps after the route has returned
postConnect(S, phone) ==
    IF S.clientStates[phone].present /\ S.clientStates[phone].isConnected
    THEN S
    ELSE startBotForHotel(S, phone)

\* POST /api/superadmin/hotels/:id/connect
ConnectRequest(phone) ==
    /\ variant = "Combined"
    /\ LET R == postConnect(Store, phone) IN
       IF R = Store
       THEN UNCHANGED vars
       ELSE /\ Len(R.handles) <= MaxHandles
            /\ Commit(R)
            /\ lastClosure' = [lastClosure EXCEPT ![phone] = "none"]
            /\ UNCHANGED <<parseVars, pgVars, ordVars, dedupVars, variant, sock, pendingStarts,
                           credStore>>

\* POST /api/superadmin/hotels/:id/disconnect, DELETE /api/superadmin/hotels/:id
DisconnectRequest(phone) ==
    /\ variant = "Combined"
    /\ Commit(disconnectBotForHotel(Store, phone))
    /\ UNCHANGED <<parseVars, pgVars, ordVars, dedupVars, variant, sock, pendingStarts, credStore, lastClosure>>

\* client.on('qr')
Combined_onQr(h, qr) ==
    /\ variant = "Combined"
    /\ CanDeliver(h) /\ handles[h].conn = "connecting"
    /\ LET phone == handles[h].tenant IN
       hotelQRs' = IF isClientConnected(Store, phone) THEN hotelQRs
                   ELSE [hotelQRs EXCEPT ![phone] = qr]
    /\ UNCHANGED <<parseVars, pgVars, ordVars, dedupVars, variant, handles, activeClients, clientStates, sock, pendingStarts,
                   credStore, lastClosure, convVars>>

\* client.on('ready'); LocalAuth has stored the session by then
Combined_onReady(h) ==
    /\ variant = "Combined"
    /\ CanDeliver(h) /\ handles[h].conn = "connecting"
    /\ LET phone == handles[h].tenant
           state == clientStates[phone] IN
       /\ handles' = [handles EXCEPT ![h].conn = "open"]
       /\ credStore' = [credStore EXCEPT ![phone] = "saved"]
       /\ IF state.present /\ ~state.isDestroying
          THEN /\ clientStates' = [clientStates EXCEPT ![phone].isConnected = TRUE]
               /\ hotelQRs' = [hotelQRs EXCEPT ![phone] = NoQR]
          ELSE UNCHANGED <<clientStates, hotelQRs>>
    /\ UNCHANGED <<parseVars, pgVars, ordVars, dedupVars, variant, activeClients, sock, pendingStarts, lastClosure, convVars>>

\* client.on('auth_failure')
Combined_onAuthFailure(h) ==
    /\ variant = "Combined"
    /\ CanDeliver(h) /\ handles[h].conn = "connecting"
    /\ Commit(disconnectBotForHotel(Store, handles[h].tenant))
    /\ lastClosure' = [lastClosure EXCEPT ![handles[h].tenant] = "authFailure"]
    /\ UNCHANGED <<parseVars, pgVars, ordVars, dedupVars, variant, sock, pendingStarts, credStore>>

\* client.on('disconnected', reason)
Combined_onDisconnected(h, reason) ==
    /\ variant = "Combined"
    /\ CanDeliver(h)
    /\ Commit(disconnectBotForHotel(Store, handles[h].tenant))
    /\ lastClosure' = [lastClosure EXCEPT ![handles[h].tenant] = reason]
    /\ UNCHANGED <<parseVars, pgVars, ordVars, dedupVars, variant, sock, pendingStarts, credStore>>

\* `await client.initialize()` of startBotForHotel settles: resolves ...
Combined_initializeResolves(h) ==
    /\ variant = "Combined"
    /\ handles[h].init = "pending"
    /\ handles' = [handles EXCEPT ![h].init = "settled"]
    /\ UNCHANGED <<parseVars, pgVars, ordVars, dedupVars, variant, activeClients, clientStates, hotelQRs, sock, pendingStarts,
                   credStore, lastClosure, convVars>>

\* ... or rejects: catch (error) { disconnectBotForHotel(phone) }
Combined_initializeRejects(h) ==
    /\ variant = "Combined"
    /\ handles[h].init = "pending"
    /\ LET S1 == [Store EXCEPT !.handles[h].init = "settled"] IN
       Commit(disconnectBotForHotel(S1, handles[h].tenant))
    /\ UNCHANGED <<parseVars, pgVars, ordVars, dedupVars, variant, sock, pendingStarts, credStore, lastClosure>>

-----------------------------------------------------------------------------
(* Baileys variants: session lifecycle *)

\* startBotConnection / connectToWhatsApp after `await useMultiFileAuthState('auth')`:
\* makeWASocket, setClient, sock.ev.on(...)
Baileys_makeSocket ==
    /\ variant \in BaileysVariants
    /\ pendingStarts > 0
    /\ Len(handles) < MaxHandles
    /\ handles' = Append(handles, [NewHandle(BaileysTenant) EXCEPT !.init = "settled"])
    /\ sock' = Len(handles) + 1
    /\ pendingStarts' = pendingStarts - 1
    /\ lastClosure' = [lastClosure EXCEPT ![BaileysTenant] = "none"]
    /\ UNCHANGED <<parseVars, pgVars, ordVars, dedupVars, variant, activeClients, clientStates, hotelQRs, credStore, convVars>>

\* (lastDisconnect.error instanceof Boom)?.output?.statusCode !== DisconnectReason.loggedOut
\* `instanceof` yields a boolean, whose .output is undefined: the test is always true.
script_shouldReconnect(reason) == TRUE

\* script.js / part_001 (simple) / part_002: sock.ev.on('connection.update') with connection === 'close'
script_onClose(h, reason) ==
    /\ variant = "script"
    /\ CanDeliver(h)
    /\ handles' = [handles EXCEPT ![h].conn = "closed"]
    /\ pendingStarts' = IF script_shouldReconnect(reason) THEN pendingStarts + 1
                        ELSE pendingStarts
    /\ lastClosure' = [lastClosure EXCEPT ![BaileysTenant] = reason]
    /\ UNCHANGED <<parseVars, pgVars, ordVars, dedupVars, variant, activeClients, clientStates, hotelQRs, sock, credStore, convVars>>

\* handleOpenConnection: setQrCode(null)
pg_handleOpenConnection(qrs) == [qrs EXCEPT ![BaileysTenant] = NoQR]

\* connection === 'open' (script.js only logs; pg clears the QR on the server)
Baileys_onOpen(h) ==
    /\ variant \in BaileysVariants
    /\ CanDeliver(h) /\ handles[h].conn = "connecting"
    /\ handles' = [handles EXCEPT ![h].conn = "open"]
    /\ hotelQRs' = IF variant = "pg" THEN pg_handleOpenConnection(hotelQRs) ELSE hotelQRs
    /\ UNCHANGED <<parseVars, pgVars, ordVars, dedupVars, variant, activeClients, clientStates, sock, pendingStarts, credStore,
                   lastClosure, convVars>>

\* update.qr: script.js prints it to the terminal; pg starts qrcode.toDataURL(qr, callback)
\* (render: the challenge whose data URL is being computed for this socket's handler)
Baileys_onQr(h, qr) ==
    /\ variant \in BaileysVariants
    /\ CanDeliver(h) /\ handles[h].conn = "connecting"
    /\ variant = "pg" => handles[h].render = NoQR
    /\ handles' = IF variant = "pg" THEN [handles EXCEPT ![h].render = qr] ELSE handles
    /\ UNCHANGED <<parseVars, pgVars, ordVars, dedupVars, variant, activeClients, clientStates,
                   hotelQRs, sock, pendingStarts, credStore, lastClosure, convVars>>

\* the callback of qrcode.toDataURL: setQrCode(url)
pg_onQrRendered(h) ==
    /\ variant = "pg"
    /\ handles[h].render # NoQR
    /\ hotelQRs' = [hotelQRs EXCEPT ![BaileysTenant] = handles[h].render]
    /\ handles' = [handles EXCEPT ![h].render = NoQR]
    /\ UNCHANGED <<parseVars, pgVars, ordVars, dedupVars, variant, activeClients, clientStates,
                   sock, pendingStarts, credStore, lastClosure, convVars>>

\* sock.ev.on('creds.update', saveCreds)
Baileys_onCredsUpdate(h) ==
    /\ variant \in BaileysVariants
    /\ CanDeliver(h)
    /\ credStore' = [credStore EXCEPT ![BaileysTenant] = "saved"]
    /\ UNCHANGED <<parseVars, pgVars, ordVars, dedupVars, variant, handles, activeClients, clientStates, hotelQRs, sock,
                   pendingStarts, lastClosure, convVars>>

\* part_001 (pg): connection === 'close': six known reasons reconnect, any other ends the socket
pg_onClose(h, reason) ==
    /\ variant = "pg"
    /\ CanDeliver(h)
    /\ handles' = [handles EXCEPT ![h].conn = "closed"]
    /\ pendingStarts' = IF reason \in KnownReasons THEN pendingStarts + 1 ELSE pendingStarts
    /\ lastClosure' = [lastClosure EXCEPT ![BaileysTenant] = reason]
    /\ UNCHANGED <<parseVars, pgVars, ordVars, dedupVars, variant, activeClients, clientStates, hotelQRs, sock, credStore, convVars>>


-----------------------------------------------------------------------------
(* Message deduplication *)

\* Mutant of InWindow: only the most recently inserted id is compared.
InWindow_lastOnly(ids, msgId) == Len(ids) > 0 /\ ids[Len(ids)] = msgId

\* processedMessageIds.has(msgId)
InWindow(ids, msgId) == \E i \in 1..Len(ids) : ids[i] = msgId

\* Mutant of dedupAdd: the id is not remembered.
dedupAdd_forgets(ids, msgId) == ids

\* processedMessageIds.add(msgId); if (size > 100) delete the first value of the Set
\* (a Set iterates in insertion order): Combined.js, script.js, part_001 (simple), part_002
dedupAdd(ids, msgId) ==
    LET added == Append(ids, msgId) IN
    IF Len(added) > DedupCapacity THEN Tail(added) ELSE added

\* part_001 (pg): processedMessageIds.add(msg.key.id), nothing is ever deleted
pg_dedupAdd(ids, msgId) == Append(ids, msgId)

\* The message handler up to and including the deduplication block.
\* Result: whether the delivery reached the deduplicator, whether it passed, the window.
dedupFilter(S, ids, phone, msgId, fromMe) ==
    IF fromMe
    THEN [reached |-> FALSE, pass |-> FALSE, ids |-> ids]
    ELSE IF variant = "Combined" /\ ~isClientConnected(S, phone)
    THEN [reached |-> FALSE, pass |-> FALSE, ids |-> ids]
    ELSE IF InWindow(ids, msgId)
    THEN [reached |-> TRUE, pass |-> FALSE, ids |-> ids]
    ELSE [reached |-> TRUE, pass |-> TRUE,
          ids |-> IF variant = "pg" THEN pg_dedupAdd(ids, msgId) ELSE dedupAdd(ids, msgId)]

\* Ids of `old` that are no longer in `new`.
Evicted(old, new) == {old[i] : i \in 1..Len(old)} \ {new[i] : i \in 1..Len(new)}

Min(a, b) == IF a < b THEN a ELSE b

\* bookkeeping of one delivery with filter result r
DedupRecord(r, msgId) ==
    /\ processedMessageIds' = r.ids
    /\ fed' = IF r.reached THEN [fed EXCEPT ![msgId] = Min(@ + 1, FedCap)] ELSE fed
    /\ passes' = IF r.pass THEN [passes EXCEPT ![msgId] = @ + 1] ELSE passes
    /\ evictions' = IF r.pass
                    THEN LET ev == Evicted(processedMessageIds, r.ids) IN
                         [id \in MsgIds |-> IF id \in ev THEN evictions[id] + 1
                                                        ELSE evictions[id]]
                    ELSE evictions
    /\ insertLog' = IF r.pass THEN Append(insertLog, msgId) ELSE insertLog

\* client.on('message') / sock.ev.on('messages.upsert') for message msgId; hasText: the
\* message carries text.  What follows the filter is kept as a call in flight.
Deliver(h, msgId, fromMe, hasText) ==
    /\ CanDeliver(h) /\ handles[h].conn = "open"
    /\ delivered < MaxDeliveries
    /\ delivered' = delivered + 1
    /\ LET r == dedupFilter(Store, processedMessageIds, handles[h].tenant, msgId, fromMe)
           starts == r.pass /\ (hasText \/ variant = "pg")
       IN
       /\ starts => Len(inflight) < MaxInFlight
       /\ DedupRecord(r, msgId)
       /\ inflight' = IF starts
                      THEN Append(inflight, [id |-> msgId, gen |-> evictions[msgId]])
                      ELSE inflight

\* the transport delivers a new message
DeliverNew(h, fromMe, hasText) ==
    /\ nextMsgId \in MsgIds
    /\ Deliver(h, nextMsgId, fromMe, hasText)
    /\ nextMsgId' = nextMsgId + 1
    /\ UNCHANGED <<variant, sessVars, convVars, ordVars, pgVars, parseVars>>

Redeliverable ==
    {id \in 1..(nextMsgId - 1) : fed[id] > 0 /\ (id <= OldDup \/ id >= nextMsgId - RecentDup)}

\* the transport delivers a message again
Redeliver(h, msgId, hasText) ==
    /\ msgId \in Redeliverable
    /\ Deliver(h, msgId, FALSE, hasText)
    /\ UNCHANGED <<nextMsgId, variant, sessVars, convVars, ordVars, pgVars, parseVars>>

\* a downstream handling call returns
HandlingDone(i) ==
    /\ i \in 1..Len(inflight)
    /\ inflight' = [j \in 1..(Len(inflight) - 1) |->
                      IF j < i THEN inflight[j] ELSE inflight[j + 1]]
    /\ UNCHANGED <<processedMessageIds, nextMsgId, delivered, fed, passes, evictions, insertLog,
                   variant, sessVars, convVars, ordVars, pgVars, parseVars>>

-----------------------------------------------------------------------------
(* Message handling: parsing, conversation state, checkout *)

\* messages the transport delivers in one run of the conversation specification
MaxMsgs == 3
\* Date.now() advances at most to MaxClock
MaxClock == 2

\* tempOrder objects alive at once (part_001, pg)
MaxTemp == 2
TempRefs == 1..MaxTemp

\* "Margherita Pizza - ₹800", "Beef Steak - ₹1500" of the default menu
Menu == [name : {"margherita pizza"}, price : {800}] \cup [name : {"beef steak"}, price : {1500}]

PriceOf(name) == (CHOOSE m \in Menu : m.name = name).price

Texts == {"room 105 2 margherita pizza", "beef steak", "yes", "no", "reset", "hello"}

\* What the handlers' tests see of a text: substrings (String.includes), the room number
\* matched by /\b(\d{3,4})\b/, /^\d{3,4}$/, and the menu items matched with their quantities.
TextInfo(text) ==
    LET none == [affirm |-> FALSE, negative |-> FALSE, isReset |-> FALSE, isHelp |-> FALSE,
                 digitsOnly |-> FALSE,
                 room |-> NoRoom, mentions |-> <<>>, orderKw |-> FALSE, menuKw |-> FALSE,
                 greetKw |-> FALSE]
    IN CASE text = "room 105 2 margherita pizza" ->
              [none EXCEPT !.room = "105",
                           !.mentions = <<[name |-> "margherita pizza", quantity |-> 2]>>]
         [] text = "beef steak" ->
              [none EXCEPT !.mentions = <<[name |-> "beef steak", quantity |-> 1]>>]
         [] text = "yes" -> [none EXCEPT !.affirm = TRUE]
         [] text = "no" -> [none EXCEPT !.negative = TRUE]
         [] text = "reset" -> [none EXCEPT !.isReset = TRUE]
         [] text = "hello" -> [none EXCEPT !.greetKw = TRUE]
         [] text = "105" -> [none EXCEPT !.digitsOnly = TRUE, !.room = "105"]
         [] text = "order" -> [none EXCEPT !.orderKw = TRUE]
         [] text = "help" -> [none EXCEPT !.isHelp = TRUE]
         [] OTHER -> none

\* result.orderItems: name, quantity and the menu price (price 0: the item carries none)
OrderItems(mentions, withPrice) ==
    [i \in 1..Len(mentions) |->
        [name |-> mentions[i].name, quantity |-> mentions[i].quantity,
         price |-> IF withPrice THEN PriceOf(mentions[i].name) ELSE 0]]

\* Combined.js parseUserMessage(message, currentState, phone)
Combined_parseUserMessage(text, st) ==
    LET i == TextInfo(text)
        items == OrderItems(i.mentions, TRUE)
    IN IF i.digitsOnly /\ st.items # EmptyCart
       THEN [intent |-> "provide_room_only", roomNumber |-> i.room, orderItems |-> EmptyCart]
       ELSE [intent |-> IF i.orderKw \/ items # EmptyCart THEN "order"
                        ELSE IF i.menuKw THEN "menu"
                        ELSE IF i.greetKw THEN "greeting"
                        ELSE IF i.room # NoRoom THEN "provide_room_only"
                        ELSE "unknown",
             roomNumber |-> i.room, orderItems |-> items]

\* part_001 parseUserMessage(message) of the single-tenant bot
simple_parseUserMessage(text) ==
    LET i == TextInfo(text)
        items == OrderItems(i.mentions, FALSE)
    IN [intent |-> IF i.greetKw THEN "greeting"
                   ELSE IF i.menuKw THEN "ask_menu"
                   ELSE IF i.orderKw \/ items # EmptyCart THEN "order_food"
                   ELSE IF i.room # NoRoom THEN "provide_room_only"
                   ELSE "unknown",
        roomNumber |-> i.room, orderItems |-> items]

\* state.items.map(item => ({ name, quantity, price, subtotal: item.price * item.quantity }))
orderLines(items) ==
    [i \in 1..Len(items) |->
        [name |-> items[i].name, quantity |-> items[i].quantity, price |-> items[i].price,
         subtotal |-> items[i].price * items[i].quantity]]

RECURSIVE orderTotal_ignoresQuantity(_)
orderTotal_ignoresQuantity(lines) ==
    IF lines = <<>> THEN 0
    ELSE Head(lines).price + orderTotal_ignoresQuantity(Tail(lines))

RECURSIVE orderTotal(_)
\* orderItems.reduce((sum, item) => sum + item.subtotal, 0)
orderTotal(lines) ==
    IF lines = <<>> THEN 0
    ELSE Head(lines).subtotal + orderTotal(Tail(lines))

RECURSIVE script_orderTotal(_)
\* state.items.reduce((sum, item) => sum + (item.price * item.quantity), 0)
script_orderTotal(items) ==
    IF items = <<>> THEN 0
    ELSE Head(items).price * Head(items).quantity + script_orderTotal(Tail(items))

\* the order placeOrder builds from the conversation state (the single-tenant bot of
\* part_001 stores the items as parsed, without prices, and no total: total 0 here)
NewOrder(st, from, orderId) ==
    [id |-> orderId, room |-> st.room, items |-> orderLines(st.items),
     total |-> orderTotal(orderLines(st.items)),
     guestNumber |-> from, status |-> "Pending", episode |-> st.episode]

\* newOrder of script.js placeOrder
script_NewOrder(st, from, orderId) ==
    [id |-> orderId, room |-> st.room, items |-> orderLines(st.items),
     total |-> script_orderTotal(st.items),
     guestNumber |-> from, status |-> "Pending", episode |-> st.episode]

\* a message the program hands to the transport: to the admin number or to the guest
Note(phone, to, kind, orderId) ==
    [tenant |-> phone, to |-> to, kind |-> kind, orderId |-> orderId]

\* the order notification whose send a handler issues when it gets to pc
NotesAt(pc, phone, orderId) ==
    CASE pc = "placed" -> {Note(phone, "guest", "confirmed", orderId)}
      [] pc = "placedAdmin" -> {Note(phone, "admin", "newOrder", orderId)}
      [] pc = "placedGuest" -> {Note(phone, "guest", "confirmed", orderId)}
      [] pc = "placedNoted" -> {Note(phone, "admin", "newOrder", orderId)}
      [] OTHER -> {}

cancelOrder_keepsCart(os, o) == [os EXCEPT ![o].awaitingConfirmation = FALSE]

\* state.awaitingConfirmation = false; state.items = [];
cancelOrder(os, o) == [os EXCEPT ![o].awaitingConfirmation = FALSE, ![o].items = EmptyCart]

\* the guest's cart as the program holds it
Cart(us, os, from) == IF us[from] = 0 THEN EmptyCart ELSE os[us[from]].items

\* the object a fresh conversation state is allocated at
FreshObj(os) == CHOOSE o \in ObjIds : ~os[o].used /\ \A q \in ObjIds : q < o => os[q].used

\* userStates.get(from) || { awaitingConfirmation: false, items: [], room: null, ... }
GetOrFresh(us, os, from, phone) ==
    IF us[from] # 0
    THEN [obj |-> us[from], objs |-> os]
    ELSE [obj |-> FreshObj(os),
          objs |-> [os EXCEPT ![FreshObj(os)] = [NoObj EXCEPT !.used = TRUE,
                                                              !.hotelPhone = phone]]]

\* client: the transport handle the handler was called with and sends through
Handler(msgId, h, phone, from, text, o, pc, p, orderId, awc) ==
    [id |-> msgId, client |-> h, tenant |-> phone, from |-> from, text |-> text, obj |-> o,
     pc |-> pc, intent |-> p.intent, orderItems |-> p.orderItems, orderId |-> orderId,
     awc0 |-> awc]

\* Mutant of Combined_afterRoom: handleOrderIntent asks for confirmation without looking
\* at the room and the cart.
Combined_afterRoom_noChecks(us, os, o, from, intent, orderItems, msgId) ==
    LET os1 == IF orderItems # EmptyCart THEN [os EXCEPT ![o].items = orderItems] ELSE os
    IN CASE intent = "order" ->
              [userStates |-> us, objs |-> os1, pc |-> "summary"]
         [] intent = "provide_room_only" ->
              [userStates |-> [us EXCEPT ![from] = o], objs |-> os1, pc |-> "done"]
         [] OTHER ->
              [userStates |-> us, objs |-> os1, pc |-> "setOnly"]

\* Combined.js handleMessage from `if (parsed.orderItems ...)` (line 872) to its end,
\* up to the next awaited send: the state after it and where the handler is suspended
\* ("done": it returned).
Combined_afterRoom(us, os, o, from, intent, orderItems, msgId) ==
    LET os1 == IF orderItems # EmptyCart THEN [os EXCEPT ![o].items = orderItems] ELSE os
        st == os1[o]
    IN CASE intent = "order" ->
              [userStates |-> us, objs |-> os1,
               pc |-> IF st.room = NoRoom \/ st.items = EmptyCart THEN "setOnly" ELSE "summary"]
         [] intent = "provide_room_only" ->
              [userStates |-> [us EXCEPT ![from] = o], objs |-> os1, pc |-> "done"]
         [] OTHER ->
              [userStates |-> us, objs |-> os1, pc |-> "setOnly"]

\* Combined.js placeOrder up to its first awaited send
Combined_placeOrder(base, st, from, phone) ==
    IF st.room = NoRoom \/ st.items = EmptyCart
    THEN [base EXCEPT !.pc = "placeFail"]
    ELSE [base EXCEPT !.orders[phone] = Append(@, NewOrder(st, from, now)),
                      !.pc = "placed", !.orderId = now]

\* Combined.js showHelpOptions up to `await client.sendMessage(from, button)`
showHelpOptions(base, phone) ==
    IF ~isClientConnected(Store, phone)
    THEN [base EXCEPT !.pc = "done"]
    ELSE [base EXCEPT !.pc = "help"]

\* Combined.js handleMessage up to its first awaited send, for conversation object o
Combined_handleMessage(us, os, ords, o, from, text, phone, msgId) ==
    LET st == os[o]
        i == TextInfo(text)
        base == [userStates |-> us, objs |-> os, orders |-> ords, pc |-> "ret",
                 intent |-> "none", orderItems |-> EmptyCart, orderId |-> 0]
    IN IF i.isReset
       THEN [base EXCEPT !.userStates = [us EXCEPT ![from] = 0]]
       ELSE IF i.isHelp
       THEN showHelpOptions(base, phone)
       ELSE IF st.awaitingConfirmation
       THEN IF i.affirm THEN Combined_placeOrder(base, st, from, phone)
            ELSE IF i.negative THEN [base EXCEPT !.pc = "cancel"]
            ELSE [base EXCEPT !.pc = "reprompt"]
       ELSE LET p == Combined_parseUserMessage(text, st) IN
            IF p.roomNumber # NoRoom
            THEN [base EXCEPT !.objs = [os EXCEPT ![o].room = p.roomNumber],
                              !.pc = "roomNoted", !.intent = p.intent,
                              !.orderItems = p.orderItems]
            ELSE LET a == Combined_afterRoom(us, os, o, from, p.intent, p.orderItems, msgId)
                 IN [base EXCEPT !.userStates = a.userStates, !.objs = a.objs, !.pc = a.pc]

\* Combined.js: what a handler suspended at pc does when its send returns, up to the next
\* awaited send
Combined_continue(hd, us, os) ==
    LET o == hd.obj
        from == hd.from
    IN CASE hd.pc = "placeFail" ->
              [userStates |-> [us EXCEPT ![from] = 0], objs |-> os, pc |-> "done"]
         [] hd.pc = "placed" ->
              [userStates |-> [us EXCEPT ![from] = 0],
               objs |-> [os EXCEPT ![o].lastOrderId = hd.orderId, ![o].awaitingRating = FALSE],
               pc |-> "done"]
         [] hd.pc = "cancel" ->
              [userStates |-> [us EXCEPT ![from] = o],
               objs |-> cancelOrder(os, o),
               pc |-> "done"]
         [] hd.pc = "roomNoted" ->
              Combined_afterRoom(us, os, o, from, hd.intent, hd.orderItems, hd.id)
         [] hd.pc = "setOnly" ->
              [userStates |-> [us EXCEPT ![from] = o], objs |-> os, pc |-> "done"]
         [] hd.pc = "summary" ->
              [userStates |-> [us EXCEPT ![from] = o],
               objs |-> [os EXCEPT ![o].awaitingConfirmation = TRUE, ![o].episode = hd.id],
               pc |-> "done"]
         [] OTHER ->
              [userStates |-> us, objs |-> os, pc |-> "done"]

\* part_001 placeOrder (single-tenant bot) up to its first awaited send
simple_placeOrder(base, st, from) ==
    IF st.room = NoRoom \/ st.items = EmptyCart
    THEN [base EXCEPT !.pc = "placeFail"]
    ELSE [base EXCEPT !.orders[BaileysTenant] = Append(@, NewOrder(st, from, now)),
                      !.pc = "placedNoted", !.orderId = now]

\* part_001 messages.upsert handler (single-tenant bot) from line 133 to its first awaited send
simple_handleMessage(us, os, ords, o, from, text, msgId) ==
    LET st == os[o]
        i == TextInfo(text)
        base == [userStates |-> us, objs |-> os, orders |-> ords, pc |-> "ret",
                 intent |-> "none", orderItems |-> EmptyCart, orderId |-> 0]
    IN IF st.awaitingConfirmation /\ i.affirm THEN simple_placeOrder(base, st, from)
       ELSE IF st.awaitingConfirmation /\ i.negative THEN [base EXCEPT !.pc = "cancel"]
       ELSE IF i.isReset THEN [base EXCEPT !.userStates = [us EXCEPT ![from] = 0]]
       ELSE LET p == simple_parseUserMessage(text)
                os1 == IF p.roomNumber # NoRoom THEN [os EXCEPT ![o].room = p.roomNumber]
                                                 ELSE os
                os2 == IF p.orderItems # EmptyCart THEN [os1 EXCEPT ![o].items = p.orderItems]
                                                   ELSE os1
                st2 == os2[o]
            IN [base EXCEPT
                  !.objs = os2,
                  !.pc = CASE p.intent = "order_food" ->
                                IF st2.room = NoRoom \/ st2.items = EmptyCart
                                THEN "setOnly" ELSE "summary"
                           [] p.intent = "provide_room_only" ->
                                IF st2.items # EmptyCart THEN "summary" ELSE "setOnly"
                           [] OTHER -> "setOnly"]

\* part_001 (single-tenant bot): what a handler suspended at pc does when its sends return
simple_continue(hd, us, os) ==
    LET o == hd.obj
        from == hd.from
    IN CASE hd.pc \in {"placeFail", "placedNoted"} ->
              [userStates |-> [us EXCEPT ![from] = 0], objs |-> os, pc |-> "done"]
         [] hd.pc = "cancel" ->
              [userStates |-> [us EXCEPT ![from] = o],
               objs |-> cancelOrder(os, o),
               pc |-> "done"]
         [] hd.pc = "setOnly" ->
              [userStates |-> [us EXCEPT ![from] = o], objs |-> os, pc |-> "done"]
         [] hd.pc = "summary" ->
              [userStates |-> [us EXCEPT ![from] = o],
               objs |-> [os EXCEPT ![o].awaitingConfirmation = TRUE, ![o].episode = hd.id],
               pc |-> "done"]
         [] OTHER ->
              [userStates |-> us, objs |-> os, pc |-> "done"]

\* script.js parseUserMessage(message, currentState)
script_parseUserMessage(text) ==
    LET i == TextInfo(text)
        items == OrderItems(i.mentions, TRUE)
    IN [intent |-> IF i.orderKw \/ items # EmptyCart THEN "order"
                   ELSE IF i.menuKw THEN "menu"
                   ELSE IF i.greetKw THEN "greeting"
                   ELSE IF i.room # NoRoom THEN "provide_room_only"
                   ELSE "unknown",
        roomNumber |-> i.room, orderItems |-> items]

\* script.js placeOrder up to its first awaited send
script_placeOrder(base, st, from) ==
    IF st.room = NoRoom \/ st.items = EmptyCart
    THEN [base EXCEPT !.pc = "placeFail"]
    ELSE [base EXCEPT !.orders[BaileysTenant] = Append(@, script_NewOrder(st, from, now)),
                      !.pc = "placedAdmin", !.orderId = now]

\* script.js messages.upsert handler from `if (parsed.orderItems ...)` (line 286) to its end,
\* with handleOrderIntent, up to the next awaited send
script_afterRoom(us, os, o, from, intent, orderItems) ==
    LET os1 == IF orderItems # EmptyCart THEN [os EXCEPT ![o].items = orderItems] ELSE os
        st == os1[o]
    IN CASE intent = "order" ->
              [userStates |-> us, objs |-> os1,
               pc |-> IF st.room = NoRoom \/ st.items = EmptyCart THEN "setOnly" ELSE "summary"]
         [] intent = "provide_room_only" ->
              [userStates |-> [us EXCEPT ![from] = o], objs |-> os1, pc |-> "done"]
         [] OTHER ->
              [userStates |-> us, objs |-> os1, pc |-> "setOnly"]

\* script.js messages.upsert handler from line 210 to its first awaited send
script_handleMessage(us, os, ords, o, from, text, msgId) ==
    LET st == os[o]
        i == TextInfo(text)
        base == [userStates |-> us, objs |-> os, orders |-> ords, pc |-> "ret",
                 intent |-> "none", orderItems |-> EmptyCart, orderId |-> 0]
    IN IF i.isReset
       THEN [base EXCEPT !.userStates = [us EXCEPT ![from] = 0]]
       ELSE IF st.awaitingConfirmation
       THEN IF i.affirm THEN script_placeOrder(base, st, from)
            ELSE IF i.negative THEN [base EXCEPT !.pc = "cancel"]
            ELSE [base EXCEPT !.pc = "reprompt"]
       ELSE LET p == script_parseUserMessage(text)
                os1 == IF p.roomNumber # NoRoom THEN [os EXCEPT ![o].room = p.roomNumber]
                                                 ELSE os
            IN IF p.roomNumber # NoRoom /\ p.orderItems = EmptyCart
               THEN [base EXCEPT !.objs = os1, !.pc = "roomNoted", !.intent = p.intent,
                                 !.orderItems = p.orderItems]
               ELSE LET a == script_afterRoom(us, os1, o, from, p.intent, p.orderItems)
                    IN [base EXCEPT !.userStates = a.userStates, !.objs = a.objs, !.pc = a.pc]

\* script.js: what a handler suspended at pc does when its send resolves, up to the next
\* awaited send
script_continue(hd, us, os) ==
    LET o == hd.obj
        from == hd.from
    IN CASE hd.pc = "placeFail" ->
              [userStates |-> [us EXCEPT ![from] = 0], objs |-> os, pc |-> "done"]
         [] hd.pc = "placedAdmin" ->
              [userStates |-> us, objs |-> os, pc |-> "placedGuest"]
         [] hd.pc = "placedGuest" ->
              [userStates |-> [us EXCEPT ![from] = 0],
               objs |-> [os EXCEPT ![o].lastOrderId = hd.orderId, ![o].awaitingRating = TRUE],
               pc |-> "done"]
         [] hd.pc = "cancel" ->
              [userStates |-> [us EXCEPT ![from] = o],
               objs |-> cancelOrder(os, o),
               pc |-> "done"]
         [] hd.pc = "roomNoted" ->
              script_afterRoom(us, os, o, from, hd.intent, hd.orderItems)
         [] hd.pc = "setOnly" ->
              [userStates |-> [us EXCEPT ![from] = o], objs |-> os, pc |-> "done"]
         [] hd.pc = "summary" ->
              [userStates |-> [us EXCEPT ![from] = o],
               objs |-> [os EXCEPT ![o].awaitingConfirmation = TRUE, ![o].episode = hd.id],
               pc |-> "done"]
         [] OTHER ->
              [userStates |-> us, objs |-> os, pc |-> "done"]

\* safeSendMessage's catch block: the error is logged and false is returned; the order
\* store is left as it is
safeSendMessage_onError_rollback(ords, phone, orderId) ==
    [ords EXCEPT ![phone] = SelectSeq(@, LAMBDA x : x.id # orderId)]

safeSendMessage_onError(ords, phone, orderId) == ords

ConvCommit(us, os, hs) ==
    /\ userStates' = us
    /\ objs' = CollectWith([Store EXCEPT !.userStates = us, !.objs = os], hs).objs
    /\ handlers' = hs

CartNote(awc, text, us, os, from) ==
    cartChangedBy' = IF awc /\ Cart(us, os, from) # Cart(userStates, objs, from)
                     THEN cartChangedBy \cup {text} ELSE cartChangedBy

\* client.on('message', ...) of Combined.js / sock.ev.on('messages.upsert', ...) of the
\* single-tenant bot of part_001, for a new text message, up to the first awaited send
OnMessage(h, from, text) ==
    /\ variant \in {"Combined", "simple", "script"}
    /\ CanDeliver(h) /\ handles[h].conn = "open"
    /\ delivered < MaxMsgs
    /\ nextMsgId \in MsgIds
    /\ LET phone == handles[h].tenant
           msgId == nextMsgId
           r == dedupFilter(Store, processedMessageIds, phone, msgId, FALSE)
       IN /\ DedupRecord(r, msgId)
          /\ nextMsgId' = nextMsgId + 1
          /\ delivered' = delivered + 1
          /\ IF ~r.pass
             THEN UNCHANGED <<convVars, ordVars>>
             ELSE /\ userStates[from] = 0 => \E q \in ObjIds : ~objs[q].used
                  /\ Cardinality(handlers) < MaxInFlight
                  /\ LET g == GetOrFresh(userStates, objs, from,
                                         IF variant = "Combined" THEN phone ELSE "none")
                         awc == g.objs[g.obj].awaitingConfirmation
                         res == IF variant = "Combined"
                                THEN Combined_handleMessage(userStates, g.objs, orders, g.obj,
                                                            from, text, phone, msgId)
                                ELSE IF variant = "script"
                                THEN script_handleMessage(userStates, g.objs, orders, g.obj,
                                                          from, text, msgId)
                                ELSE simple_handleMessage(userStates, g.objs, orders, g.obj,
                                                          from, text, msgId)
                         hd == Handler(msgId, h, phone, from, text, g.obj, res.pc,
                                       [intent |-> res.intent, orderItems |-> res.orderItems],
                                       res.orderId, awc)
                     IN /\ ConvCommit(res.userStates, res.objs,
                                      IF res.pc = "done" THEN handlers ELSE handlers \cup {hd})
                        /\ orders' = res.orders
                        /\ CartNote(awc, text, res.userStates, res.objs, from)
                        /\ notifications' = notifications \cup NotesAt(res.pc, phone, res.orderId)
                        /\ UNCHANGED <<now, failedSends, timers>>
    /\ UNCHANGED <<parseVars, pgVars, variant, handles, activeClients, clientStates, hotelQRs, sock, pendingStarts,
                   credStore, lastClosure, inflight>>

\* Mutant of safeSendMessage: the message is handed to the client without the check.
safeSendMessage_unchecked(S, phone) == TRUE

\* safeSendMessage up to `await client.sendMessage`: whether the message is handed to the
\* client (otherwise the function returns false at once)
safeSendMessage(S, phone) == isClientConnected(S, phone)

\* Combined.js: a handler whose awaited send has returned runs to its next send that is
\* handed to the client; a safeSendMessage that returns at once does not suspend it
RECURSIVE Combined_resume(_, _, _, _)
Combined_resume(S, hd, us, os) ==
    LET r == Combined_continue(hd, us, os) IN
    IF r.pc = "done" \/ safeSendMessage(S, hd.tenant)
    THEN r
    ELSE Combined_resume(S, [hd EXCEPT !.pc = r.pc], r.userStates, r.objs)

\* what a handler suspended at an awaited send does when the send has succeeded
Continue(hd, us, os) ==
    IF variant = "Combined" THEN Combined_resume(Store, hd, us, os)
    ELSE IF variant = "script" THEN script_continue(hd, us, os)
    ELSE simple_continue(hd, us, os)

\* the pcs at which the awaited send carries an order notification
PlacementPcs == {"placed", "placedAdmin", "placedGuest", "placedNoted"}

\* the order notifications that were not delivered, after the send awaited by hd failed
FailedNote(hd) ==
    IF hd.pc \in PlacementPcs
    THEN failedSends \cup {[tenant |-> hd.tenant, orderId |-> hd.orderId]}
    ELSE failedSends

\* the send a handler awaits returns (safeSendMessage resolves / sock.sendMessage resolves)
SendReturns(hd) ==
    /\ hd \in handlers
    /\ LET res == Continue(hd, userStates, objs)
           rest == handlers \ {hd}
       IN /\ ConvCommit(res.userStates, res.objs,
                        IF res.pc = "done" THEN rest ELSE rest \cup {[hd EXCEPT !.pc = res.pc]})
          /\ CartNote(hd.awc0, hd.text, res.userStates, res.objs, hd.from)
          /\ notifications' = notifications \cup
                 (IF variant = "simple" /\ hd.pc = "placedNoted"
                  THEN {Note(hd.tenant, "guest", "confirmed", hd.orderId)}
                  ELSE NotesAt(res.pc, hd.tenant, hd.orderId))
          /\ timers' = IF variant = "script" /\ hd.pc = "placedGuest"
                       THEN timers \cup {[from |-> hd.from, orderId |-> hd.orderId]}
                       ELSE timers
    /\ UNCHANGED <<parseVars, pgVars, variant, sessVars, dedupVars, orders, now, failedSends>>

\* part_001: sock.sendMessage rejects; the handler's promise rejects and nothing after the
\* send runs.  (Combined.js safeSendMessage catches the error: the handler goes on.)
simple_sendRejects(hd) ==
    /\ variant = "simple"
    /\ hd \in handlers
    /\ ConvCommit(userStates, objs, handlers \ {hd})
    /\ UNCHANGED <<parseVars, pgVars, variant, sessVars, dedupVars, orders, now, cartChangedBy, notifications,
                   failedSends, timers>>

\* Combined.js: client.sendMessage throws inside safeSendMessage, which catches the error
\* and returns false; no caller looks at the result, so the handler goes on as after a
\* successful send
Combined_sendFails(hd) ==
    /\ variant = "Combined"
    /\ hd \in handlers
    /\ LET res == Combined_resume(Store, hd, userStates, objs)
           rest == handlers \ {hd}
       IN /\ ConvCommit(res.userStates, res.objs,
                        IF res.pc = "done" THEN rest ELSE rest \cup {[hd EXCEPT !.pc = res.pc]})
          /\ CartNote(hd.awc0, hd.text, res.userStates, res.objs, hd.from)
          /\ notifications' = notifications \cup NotesAt(res.pc, hd.tenant, hd.orderId)
    /\ orders' = IF hd.pc \in PlacementPcs
                 THEN safeSendMessage_onError(orders, hd.tenant, hd.orderId) ELSE orders
    /\ failedSends' = FailedNote(hd)
    /\ UNCHANGED <<parseVars, pgVars, variant, sessVars, dedupVars, now, timers>>

\* script.js: sock.sendMessage rejects; nothing catches it, the handler's promise rejects
\* and nothing after the send runs
script_sendRejects(hd) ==
    /\ variant = "script"
    /\ hd \in handlers
    /\ ConvCommit(userStates, objs, handlers \ {hd})
    /\ failedSends' = FailedNote(hd)
    /\ UNCHANGED <<parseVars, pgVars, variant, sessVars, dedupVars, orders, now, cartChangedBy, notifications,
                   timers>>

\* script.js: the setTimeout callback of placeOrder runs, 60 s after the guest confirmation
script_timerFires(tm) ==
    /\ variant = "script"
    /\ tm \in timers
    /\ timers' = timers \ {tm}
    /\ LET cur == userStates[tm.from]
           prompt == /\ cur # 0
                     /\ objs[cur].lastOrderId = tm.orderId
                     /\ objs[cur].awaitingRating
       IN notifications' = IF prompt
                           THEN notifications \cup
                                    {Note(BaileysTenant, "guest", "rating", tm.orderId)}
                           ELSE notifications
    /\ UNCHANGED <<parseVars, pgVars, variant, sessVars, convVars, dedupVars, handlers, orders, now,
                   cartChangedBy, failedSends>>

\* validStatuses of POST /api/orders/:id/status
validStatuses == {"Pending", "Confirmed", "Done", "Rejected"}

\* orders.findIndex(o => o.id === id): 0 when there is none
findIndex(ords, id) ==
    IF \E i \in 1..Len(ords) : ords[i].id = id
    THEN CHOOSE i \in 1..Len(ords) :
             ords[i].id = id /\ \A j \in 1..(i - 1) : ords[j].id # id
    ELSE 0

\* Combined.js: POST /api/orders/:id/status of the hotel's dashboard, for an order that
\* exists: the status is stored and, unless it is Pending, the guest is told
Combined_postOrderStatus(phone, id, status) ==
    /\ variant = "Combined"
    /\ status \in validStatuses
    /\ findIndex(orders[phone], id) # 0
    /\ orders' = [orders EXCEPT ![phone][findIndex(orders[phone], id)].status = status]
    /\ notifications' = IF status # "Pending" /\ isClientConnected(Store, phone)
                        THEN notifications \cup {Note(phone, "guest", status, id)}
                        ELSE notifications
    /\ UNCHANGED <<parseVars, pgVars, variant, sessVars, convVars, dedupVars, handlers, now,
                   cartChangedBy, failedSends, timers>>

\* time passes
Tick ==
    /\ now < MaxClock
    /\ now' = now + 1
    /\ UNCHANGED <<parseVars, pgVars, variant, sessVars, convVars, dedupVars, handlers, orders, cartChangedBy,
                   notifications, failedSends, timers>>

-----------------------------------------------------------------------------
(* parseUserMessage of Combined.js (the same code is in part_002) and of script.js, on
   messages given as sequences of words separated by blanks *)

\* words of a message
MaxTokens == 4

\* "105": a number of three digits; "2": a number of one digit; "two": a number word;
\* "burger", "chicken", "pizza": words of item names; "want": contains an order keyword;
\* "chicken" contains the greeting keyword "hi"; "menu": a menu keyword; "thanks": a
\* thanks keyword; "room": no keyword, no item
Words == {"105", "2", "two", "burger", "chicken", "pizza", "want", "menu", "thanks", "room"}

\* a menu configuration in which one item name ends with another one, in the order of the
\* configuration file (len: name.length)
ParseMenu ==
    << [name |-> "burger", words |-> <<"burger">>, len |-> 6, price |-> 300],
       [name |-> "chicken burger", words |-> <<"chicken", "burger">>, len |-> 14, price |-> 550],
       [name |-> "pizza", words |-> <<"pizza">>, len |-> 5, price |-> 800] >>

\* the number of digits of a word made of digits only, 0 for any other word
DigitCount(w) ==
    CASE w = "105" -> 3
      [] w = "2" -> 1
      [] OTHER -> 0

\* quantity from the group (\d+|one|two|three|four|five|a|an) when w is the word before an
\* item name: the group matches the end of w; without a match the quantity is 1
quantityBefore(w) ==
    CASE w = "105" -> 105
      [] w = "2" -> 2
      [] w = "two" -> 2
      [] OTHER -> 1

\* text.includes(keyword) for the keywords a word contains
KeywordsIn(w) ==
    CASE w = "want" -> {"want"}
      [] w = "chicken" -> {"hi"}
      [] w = "menu" -> {"menu"}
      [] w = "thanks" -> {"thanks"}
      [] OTHER -> {}

OrderKeywords == {"order", "get", "like", "have", "bring me", "want", "need", "i'd like"}
MenuKeywords == {"menu", "food", "what do you have", "offer"}
GreetingKeywords == {"hello", "hi", "hey", "good"}
ThanksKeywords == {"thanks", "thank you", "cheers"}

includesAny(text, keywords) ==
    \E i \in 1..Len(text) : KeywordsIn(text[i]) \cap keywords # {}

\* /^\d{3,4}$/.test(text)
isRoomDigits(text) == Len(text) = 1 /\ DigitCount(text[1]) \in {3, 4}

roomMatch_firstWord(text) == IF text = <<>> THEN NoRoom ELSE text[1]

\* text.match(/(room|rm|#|\b)(\d{3,4})\b/) || text.match(/\b(\d{3,4})\b/): the first word
\* of three or four digits
roomMatch(text) ==
    IF \E i \in 1..Len(text) : DigitCount(text[i]) \in {3, 4}
    THEN text[CHOOSE i \in 1..Len(text) :
                 /\ DigitCount(text[i]) \in {3, 4}
                 /\ \A j \in 1..(i - 1) : DigitCount(text[j]) \notin {3, 4}]
    ELSE NoRoom

\* the item's name stands in text at word i
nameAt(text, item, i) ==
    /\ i + Len(item.words) - 1 <= Len(text)
    /\ \A k \in 1..Len(item.words) : text[i + k - 1] = item.words[k]

RECURSIVE itemCount(_, _, _)
\* the sum, over the matches of the item's regex from word i on, of the quantities
itemCount(text, item, i) ==
    IF i > Len(text) THEN 0
    ELSE IF nameAt(text, item, i)
    THEN (IF i = 1 THEN 1 ELSE quantityBefore(text[i - 1]))
             + itemCount(text, item, i + Len(item.words))
    ELSE itemCount(text, item, i + 1)

orderItem(text, item) ==
    [name |-> item.name, quantity |-> itemCount(text, item, 1), price |-> item.price]

\* Combined.js: menuItems.forEach over the items in the order of the menu, every item
\* that matches is counted
Combined_orderItems(text) ==
    LET all == [i \in 1..Len(ParseMenu) |-> orderItem(text, ParseMenu[i])]
    IN SelectSeq(all, LAMBDA x : x.quantity > 0)

RECURSIVE sortByLength(_)
\* menuItems.sort((a, b) => b.name.length - a.name.length)
sortByLength(items) ==
    IF items = <<>> THEN <<>>
    ELSE LET longest == CHOOSE i \in 1..Len(items) :
                            /\ \A j \in 1..Len(items) : items[j].len <= items[i].len
                            /\ \A j \in 1..(i - 1) : items[j].len < items[i].len
             rest == [k \in 1..(Len(items) - 1) |-> IF k < longest THEN items[k]
                                                      ELSE items[k + 1]]
         IN <<items[longest]>> \o sortByLength(rest)

\* script.js: the items sorted by the length of their names, the loop ends (break) with
\* the first item that matches
script_orderItems(text) ==
    LET sorted == sortByLength(ParseMenu)
        hits == SelectSeq(sorted, LAMBDA it : itemCount(text, it, 1) > 0)
    IN IF hits = <<>> THEN <<>> ELSE <<orderItem(text, hits[1])>>

provideRoomOnly_unknown(room) ==
    [intent |-> "unknown", roomNumber |-> room, orderItems |-> <<>>]

\* the result of the special case: a room number given for an existing order
provideRoomOnly(room) ==
    [intent |-> "provide_room_only", roomNumber |-> room, orderItems |-> <<>>]

\* Combined.js parseUserMessage(message, currentState, phone) on the words of the message
Combined_parseWords(text, items) ==
    IF isRoomDigits(text) /\ items # <<>>
    THEN provideRoomOnly(text[1])
    ELSE LET room == roomMatch(text)
             orderItems == Combined_orderItems(text)
         IN [intent |-> IF includesAny(text, OrderKeywords) \/ orderItems # <<>> THEN "order"
                        ELSE IF includesAny(text, MenuKeywords) THEN "menu"
                        ELSE IF includesAny(text, GreetingKeywords) THEN "greeting"
                        ELSE IF room # NoRoom THEN "provide_room_only"
                        ELSE "unknown",
             roomNumber |-> room, orderItems |-> orderItems]

\* script.js parseUserMessage(message, currentState) on the words of the message
script_parseWords(text, items) ==
    LET room == roomMatch(text)
        orderItems == script_orderItems(text)
    IN [intent |-> IF includesAny(text, OrderKeywords) \/ orderItems # <<>> THEN "order"
                   ELSE IF includesAny(text, MenuKeywords) THEN "menu"
                   ELSE IF includesAny(text, GreetingKeywords) THEN "greeting"
                   ELSE IF includesAny(text, ThanksKeywords) THEN "thanks"
                   ELSE IF room # NoRoom /\ orderItems = <<>> THEN "provide_room_only"
                   ELSE "unknown",
        roomNumber |-> room, orderItems |-> orderItems]

NoParse == [done |-> FALSE, intent |-> "none", roomNumber |-> NoRoom, orderItems |-> <<>>]

Parsed(r) ==
    [done |-> TRUE, intent |-> r.intent, roomNumber |-> r.roomNumber,
     orderItems |-> r.orderItems]

InitNoParse ==
    /\ parseText = <<>>
    /\ parseCart = <<>>
    /\ parseResult = NoParse

\* const parsed = parseUserMessage(userMsg, state, phone)
Combined_parse ==
    /\ variant = "Combined"
    /\ ~parseResult.done
    /\ parseResult' = Parsed(Combined_parseWords(parseText, parseCart))
    /\ UNCHANGED <<parseText, parseCart, variant, sessVars, convVars, dedupVars, ordVars, pgVars>>

\* const parsed = parseUserMessage(userMsg, state)
script_parse ==
    /\ variant = "script"
    /\ ~parseResult.done
    /\ parseResult' = Parsed(script_parseWords(parseText, parseCart))
    /\ UNCHANGED <<parseText, parseCart, variant, sessVars, convVars, dedupVars, ordVars, pgVars>>

-----------------------------------------------------------------------------
(* part_001 (pg): menu-driven conversation, orders in a database table *)

\* messages the transport delivers in one run of the pg conversation specification
PgMaxMsgs == 5
\* an item is added to one tempOrder at most MaxQty times
MaxQty == 2

\* "hi": a greeting; "105", "1": numbers ("1" is also option 1 of the main menu);
\* "pasta": an entry of the menu file; "done", "cancel": ordering commands;
\* "pool?": free text; "reset": the reset keyword of the other programs, free text here
PgTexts == {"hi", "105", "1", "pasta", "done", "cancel", "pool?", "reset"}

\* ['hi', 'hello', 'hey', 'start'].includes(messageText.toLowerCase())
PgGreetings == {"hi", "hello", "hey", "start"}

\* parseInt(message): the number a text starts with, "nan" if none
pg_parseInt(text) ==
    CASE text = "105" -> "105"
      [] text = "1" -> "1"
      [] OTHER -> "nan"

\* entries of menu-config.json, lower-cased
PgMenuItems == {"pasta"}

PgInitial == [present |-> TRUE, state |-> "initial", room |-> NoRoom, tempOrder |-> 0]

NoPgOrder == [room |-> NoRoom, quantity |-> 0]

PgHandler(msgId, from, text, st, pc) ==
    [id |-> msgId, from |-> from, text |-> text, st |-> st, pc |-> pc,
     order |-> NoPgOrder, orderId |-> 0]

\* tempOrder objects reachable from the map, a suspended handler or a pending timer
TempInUse(ps, hs, tms) ==
    {ps[g].tempOrder : g \in Guests} \cup {hd.st.tempOrder : hd \in hs}
        \cup {tm.st.tempOrder : tm \in tms}

FreshTemp(tos) == CHOOSE r \in TempRefs : tos[r] = 0 /\ \A q \in TempRefs : q < r => tos[q] # 0

\* handleRoomNumber up to its awaited send
pg_handleRoomNumber_acceptsAll(ps, from, text, st) ==
    [ps EXCEPT ![from] = [st EXCEPT !.state = "mainMenu", !.room = text]]

pg_handleRoomNumber(ps, from, text, st) ==
    IF pg_parseInt(text) = "nan"
    THEN ps
    ELSE [ps EXCEPT ![from] = [st EXCEPT !.state = "mainMenu", !.room = pg_parseInt(text)]]

\* handleFoodOrdering up to its first await: the map, the tempOrder heap, where it suspends
pg_handleFoodOrdering(ps, tos, from, text, st) ==
    IF text = "cancel"
    THEN [pgStates |-> [ps EXCEPT ![from] = [st EXCEPT !.state = "mainMenu", !.tempOrder = 0]],
          tempOrders |-> tos, pc |-> "ret"]
    ELSE IF text \in PgMenuItems
    THEN LET r == IF st.tempOrder = 0 THEN FreshTemp(tos) ELSE st.tempOrder IN
         [pgStates |-> [ps EXCEPT ![from] = [st EXCEPT !.tempOrder = r]],
          tempOrders |-> [tos EXCEPT ![r] = @ + 1], pc |-> "ret"]
    ELSE IF text = "done" /\ st.tempOrder # 0
    THEN [pgStates |-> ps, tempOrders |-> tos, pc |-> "dbClient"]
    ELSE [pgStates |-> ps, tempOrders |-> tos, pc |-> "ret"]

\* handleStateBasedResponse / handleInitialState up to the first await
pg_dispatch(ps, tos, from, text, st) ==
    LET same == [pgStates |-> ps, tempOrders |-> tos, pc |-> "ret"] IN
    IF text \in PgGreetings THEN [same EXCEPT !.pc = "initSend"]
    ELSE CASE st.state = "awaitingRoomNumber" ->
                [same EXCEPT !.pgStates = pg_handleRoomNumber(ps, from, text, st)]
           [] st.state = "mainMenu" ->
                IF text \in {"1", "view menu", "menu"} THEN [same EXCEPT !.pc = "menuSend"]
                ELSE IF text \in {"5", "ask a question", "question", "?"}
                THEN [same EXCEPT !.pc = "askSend"]
                ELSE same
           [] st.state = "orderingFood" -> pg_handleFoodOrdering(ps, tos, from, text, st)
           [] st.state = "awaitingRating" ->
                IF pg_parseInt(text) \in {"1", "2", "3", "4", "5"}
                THEN [same EXCEPT !.pc = "rateAdmin"] ELSE [same EXCEPT !.pc = "rateReprompt"]
           [] OTHER -> [same EXCEPT !.pc = "aiCall"]

\* userStates.set(from, { ...state, state: 'mainMenu', tempOrder: null }) after placeOrder
pg_afterPlaceOrder(ps, hd) ==
    [ps EXCEPT ![hd.from] = [hd.st EXCEPT !.state = "mainMenu", !.tempOrder = 0]]

\* What a suspended handler does when the awaited call settles (ok: it resolved, for
\* getDbClient: with a client), up to its next await ("done": the handler ended).
pg_continue(hd, ok, ps, tos, ords, tms, notes) ==
    LET from == hd.from
        cur == ps[from]
        base == [pgStates |-> ps, pgOrders |-> ords, pgTimers |-> tms, notifications |-> notes,
                 pc |-> "done", order |-> hd.order, orderId |-> hd.orderId]
        note(to, kind) == [tenant |-> BaileysTenant, to |-> to, kind |-> kind,
                           orderId |-> hd.orderId]
        toMainMenu == [ps EXCEPT ![from] = [hd.st EXCEPT !.state = "mainMenu"]]
    IN CASE hd.pc = "initSend" ->
              IF ok THEN [base EXCEPT !.pgStates =
                              [ps EXCEPT ![from] = [cur EXCEPT !.state = "awaitingRoomNumber"]]]
              ELSE base
         [] hd.pc = "menuSend" ->
              IF ok THEN [base EXCEPT !.pgStates =
                              [ps EXCEPT ![from] = [cur EXCEPT !.state = "orderingFood"]]]
              ELSE base
         [] hd.pc = "askSend" ->
              IF ok THEN [base EXCEPT !.pgStates =
                              [ps EXCEPT ![from] = [cur EXCEPT !.state = "askingAI"]]]
              ELSE base
         [] hd.pc = "rateAdmin" ->
              IF ok THEN [base EXCEPT !.pc = "rateGuest"] ELSE base
         [] hd.pc = "rateGuest" ->
              IF ok THEN [base EXCEPT !.pgStates = toMainMenu] ELSE base
         [] hd.pc = "aiCall" ->
              [base EXCEPT !.pc = IF ok THEN "aiSend1" ELSE "aiCatchSend"]
         [] hd.pc = "aiSend1" ->
              IF ok THEN [base EXCEPT !.pgStates = toMainMenu, !.pc = "aiSend2"]
              ELSE [base EXCEPT !.pc = "aiCatchSend"]
         [] hd.pc = "aiSend2" ->
              IF ok THEN base ELSE [base EXCEPT !.pc = "aiCatchSend"]
         [] hd.pc = "aiCatchSend" ->
              IF ok THEN [base EXCEPT !.pgStates = toMainMenu] ELSE base
         [] hd.pc = "dbClient" ->
              IF ok THEN [base EXCEPT !.pc = "dbInsert",
                                      !.order = [room |-> hd.st.room,
                                                 quantity |-> tos[hd.st.tempOrder]]]
              ELSE [base EXCEPT !.pc = "dbFailSend"]
         [] hd.pc = "dbInsert" ->
              IF ok THEN LET id == Len(ords) + 1 IN
                         [base EXCEPT !.pgOrders = Append(ords, [id |-> id, room |-> hd.order.room,
                                                                 quantity |-> hd.order.quantity,
                                                                 status |-> "pending"]),
                                      !.orderId = id,
                                      !.notifications = notes \cup
                                          {[tenant |-> BaileysTenant, to |-> "admin",
                                            kind |-> "newOrder", orderId |-> id]},
                                      !.pc = "placeAdmin"]
              ELSE [base EXCEPT !.pc = "placeCatchSend"]
         [] hd.pc = "placeAdmin" ->
              IF ok THEN [base EXCEPT !.notifications = notes \cup {note("guest", "confirmed")},
                                      !.pc = "placeGuest"]
              ELSE [base EXCEPT !.pc = "placeCatchSend"]
         [] hd.pc = "placeGuest" ->
              IF ok THEN [base EXCEPT !.pgTimers = tms \cup {[from |-> from, st |-> hd.st,
                                                              orderId |-> hd.orderId]},
                                      !.pgStates = pg_afterPlaceOrder(ps, hd)]
              ELSE [base EXCEPT !.pc = "placeCatchSend"]
         [] hd.pc \in {"dbFailSend", "placeCatchSend"} ->
              IF ok THEN [base EXCEPT !.pgStates = pg_afterPlaceOrder(ps, hd)] ELSE base
         [] hd.pc = "timerSend" ->
              IF ok THEN [base EXCEPT !.pgStates =
                              [ps EXCEPT ![from] = [hd.st EXCEPT !.state = "awaitingRating"]]]
              ELSE base
         [] OTHER -> base

PgCommit(ps, tos, hs, tms) ==
    /\ pgStates' = ps
    /\ pgHandlers' = hs
    /\ pgTimers' = tms
    /\ tempOrders' = [r \in TempRefs |-> IF r \in TempInUse(ps, hs, tms) THEN tos[r] ELSE 0]

\* sock.ev.on('messages.upsert') of connectToWhatsApp for a new message
pg_onMessage(h, from, text) ==
    /\ variant = "pg"
    /\ CanDeliver(h) /\ handles[h].conn = "open"
    /\ delivered < PgMaxMsgs
    /\ nextMsgId \in MsgIds
    /\ LET msgId == nextMsgId
           r == dedupFilter(Store, processedMessageIds, handles[h].tenant, msgId, FALSE)
       IN /\ DedupRecord(r, msgId)
          /\ nextMsgId' = nextMsgId + 1
          /\ delivered' = delivered + 1
          /\ IF ~r.pass
             THEN UNCHANGED pgVars
             ELSE LET ps0 == IF pgStates[from].present THEN pgStates
                             ELSE [pgStates EXCEPT ![from] = PgInitial]
                      st == ps0[from]
                      adds == st.state = "orderingFood" /\ text \in PgMenuItems
                  IN /\ Cardinality(pgHandlers) < MaxInFlight
                     /\ adds /\ st.tempOrder = 0 => \E q \in TempRefs : tempOrders[q] = 0
                     /\ adds /\ st.tempOrder # 0 => tempOrders[st.tempOrder] < MaxQty
                     /\ LET res == pg_dispatch(ps0, tempOrders, from, text, st)
                        IN PgCommit(res.pgStates, res.tempOrders,
                                    pgHandlers \cup {PgHandler(msgId, from, text, st, res.pc)},
                                    pgTimers)
                     /\ UNCHANGED pgOrders
    /\ UNCHANGED <<parseVars, variant, sessVars, convVars, inflight, ordVars>>

\* the call a handler awaits settles: sock.sendMessage, chat.sendMessage, getDbClient,
\* dbClient.query resolve (ok) or fail
pg_settles(hd, ok) ==
    /\ hd \in pgHandlers
    /\ LET res == pg_continue(hd, ok, pgStates, tempOrders, pgOrders, pgTimers, notifications)
           rest == pgHandlers \ {hd}
           next == IF res.pc = "done" THEN rest
                   ELSE rest \cup {[hd EXCEPT !.pc = res.pc, !.order = res.order,
                                              !.orderId = res.orderId]}
       IN /\ PgCommit(res.pgStates, tempOrders, next, res.pgTimers)
          /\ pgOrders' = res.pgOrders
          /\ notifications' = res.notifications
    /\ UNCHANGED <<parseVars, variant, sessVars, convVars, dedupVars, handlers, orders, now,
                   cartChangedBy, failedSends, timers>>

\* setTimeout(..., 10000) of placeOrder fires: the callback runs to its awaited send
pg_timerFires(tm) ==
    /\ tm \in pgTimers
    /\ Cardinality(pgHandlers) < MaxInFlight
    /\ PgCommit(pgStates, tempOrders,
                pgHandlers \cup {[PgHandler(0, tm.from, "timer", tm.st, "timerSend")
                                    EXCEPT !.orderId = tm.orderId]},
                pgTimers \ {tm})
    /\ UNCHANGED <<parseVars, variant, sessVars, convVars, dedupVars, ordVars, pgOrders>>

-----------------------------------------------------------------------------
(* Specification of the session lifecycle *)

InitConv ==
    /\ userStates = [g \in Guests |-> 0]
    /\ objs = [o \in ObjIds |-> NoObj]

InitDedupEmpty ==
    /\ processedMessageIds = <<>>
    /\ nextMsgId = 1
    /\ delivered = 0
    /\ inflight = <<>>
    /\ fed = [id \in MsgIds |-> 0]
    /\ passes = [id \in MsgIds |-> 0]
    /\ evictions = [id \in MsgIds |-> 0]
    /\ insertLog = <<>>

NoPgState == [present |-> FALSE, state |-> "none", room |-> NoRoom, tempOrder |-> 0]

InitPg ==
    /\ pgStates = [g \in Guests |-> NoPgState]
    /\ pgHandlers = {}
    /\ tempOrders = [r \in TempRefs |-> 0]
    /\ pgOrders = <<>>
    /\ pgTimers = {}

InitOrders ==
    /\ handlers = {}
    /\ orders = [t \in Tenants |-> <<>>]
    /\ now = 1
    /\ cartChangedBy = {}
    /\ notifications = {}
    /\ failedSends = {}
    /\ timers = {}
    /\ InitPg
    /\ InitNoParse

InitSession ==
    /\ variant \in SessionVariants
    /\ handles = <<>>
    /\ activeClients = [t \in Tenants |-> NoHandle]
    /\ clientStates = [t \in Tenants |-> NoState]
    /\ hotelQRs = [t \in Tenants |-> NoQR]
    /\ sock = NoHandle
    \* the Baileys programs call startBotConnection() when the module is loaded
    /\ pendingStarts = IF variant \in BaileysVariants THEN 1 ELSE 0
    /\ credStore = [t \in Tenants |-> "none"]
    /\ lastClosure = [t \in Tenants |-> "none"]
    /\ InitConv
    /\ InitDedupEmpty
    /\ InitOrders

NextSession ==
    \/ \E p \in Tenants : Activate(p)
    \/ \E p \in Tenants : ConnectRequest(p)
    \/ \E p \in Tenants : DisconnectRequest(p)
    \/ \E h \in HandleIds, qr \in QrCodes : Combined_onQr(h, qr)
    \/ \E h \in HandleIds : Combined_onReady(h)
    \/ \E h \in HandleIds : Combined_onAuthFailure(h)
    \/ \E h \in HandleIds, r \in Reasons : Combined_onDisconnected(h, r)
    \/ \E h \in HandleIds : Combined_initializeResolves(h)
    \/ \E h \in HandleIds : Combined_initializeRejects(h)
    \/ Baileys_makeSocket
    \/ \E h \in HandleIds, r \in Reasons : script_onClose(h, r)
    \/ \E h \in HandleIds, r \in Reasons : pg_onClose(h, r)
    \/ \E h \in HandleIds : Baileys_onOpen(h)
    \/ \E h \in HandleIds, qr \in QrCodes : Baileys_onQr(h, qr)
    \/ \E h \in HandleIds : pg_onQrRendered(h)
    \/ \E h \in HandleIds : Baileys_onCredsUpdate(h)

SpecSession == InitSession /\ [][NextSession]_vars

-----------------------------------------------------------------------------
(* Specification of the deduplicator: one connected tenant, and a window that  *)
(* is empty or already holds a backlog of messages handled one after another.  *)

Backlogs == {0, DedupCapacity - 2}

InitDedup ==
    /\ variant \in SessionVariants
    /\ handles = <<[tenant |-> BaileysTenant, attached |-> TRUE, conn |-> "open",
                    init |-> "settled", render |-> NoQR]>>
    /\ activeClients = [t \in Tenants |->
                          IF variant = "Combined" /\ t = BaileysTenant THEN 1 ELSE NoHandle]
    /\ clientStates = [t \in Tenants |->
                         IF variant = "Combined" /\ t = BaileysTenant
                         THEN [present |-> TRUE, isConnected |-> TRUE, isDestroying |-> FALSE]
                         ELSE NoState]
    /\ hotelQRs = [t \in Tenants |-> NoQR]
    /\ sock = IF variant \in BaileysVariants THEN 1 ELSE NoHandle
    /\ pendingStarts = 0
    /\ credStore = [t \in Tenants |-> IF t = BaileysTenant THEN "saved" ELSE "none"]
    /\ lastClosure = [t \in Tenants |-> "none"]
    /\ InitConv
    /\ InitOrders
    /\ \E b \in Backlogs :
        /\ processedMessageIds = [i \in 1..b |-> i]
        /\ insertLog = [i \in 1..b |-> i]
        /\ nextMsgId = b + 1
        /\ fed = [id \in MsgIds |-> IF id <= b THEN 1 ELSE 0]
        /\ passes = [id \in MsgIds |-> IF id <= b THEN 1 ELSE 0]
    /\ delivered = 0
    /\ inflight = <<>>
    /\ evictions = [id \in MsgIds |-> 0]

NextDedup ==
    \/ \E h \in HandleIds, fromMe \in BOOLEAN, hasText \in BOOLEAN : DeliverNew(h, fromMe, hasText)
    \/ \E h \in HandleIds, id \in Redeliverable, hasText \in BOOLEAN : Redeliver(h, id, hasText)
    \/ \E i \in 1..MaxInFlight : HandlingDone(i)

SpecDedup == InitDedup /\ [][NextDedup]_vars

-----------------------------------------------------------------------------
(* Specification of message handling: every tenant connected (Combined.js: two  *)
(* tenants; the single-tenant bot of part_001: one), no conversation yet.       *)

ConvVariants == {"Combined", "simple"}

\* the variants whose placeOrder stores priced order lines and a total
PlaceVariants == {"Combined", "script"}

InitHandlingOf(variants) ==
    /\ variant \in variants
    /\ handles = IF variant = "Combined"
                 THEN <<[tenant |-> "h1", attached |-> TRUE, conn |-> "open",
                         init |-> "settled", render |-> NoQR],
                        [tenant |-> "h2", attached |-> TRUE, conn |-> "open",
                         init |-> "settled", render |-> NoQR]>>
                 ELSE <<[tenant |-> BaileysTenant, attached |-> TRUE, conn |-> "open",
                         init |-> "settled", render |-> NoQR]>>
    /\ activeClients = [t \in Tenants |->
                          IF variant = "Combined" THEN (IF t = "h1" THEN 1 ELSE 2) ELSE NoHandle]
    /\ clientStates = [t \in Tenants |->
                         IF variant = "Combined"
                         THEN [present |-> TRUE, isConnected |-> TRUE, isDestroying |-> FALSE]
                         ELSE NoState]
    /\ hotelQRs = [t \in Tenants |-> NoQR]
    /\ sock = IF variant = "Combined" THEN NoHandle ELSE 1
    /\ pendingStarts = 0
    /\ credStore = [t \in Tenants |->
                      IF variant = "Combined" \/ t = BaileysTenant THEN "saved" ELSE "none"]
    /\ lastClosure = [t \in Tenants |-> "none"]
    /\ InitConv
    /\ InitDedupEmpty
    /\ InitOrders

InitHandling == InitHandlingOf(ConvVariants)

NextHandling ==
    \/ \E h \in HandleIds, from \in Guests, text \in Texts : OnMessage(h, from, text)
    \/ \E hd \in handlers : SendReturns(hd)
    \/ \E hd \in handlers : simple_sendRejects(hd)
    \/ Tick

SpecConv == InitHandling /\ [][NextHandling]_vars

-----------------------------------------------------------------------------
(* Specification of sequential handling: the transport delivers a message    *)
(* only when the handler of the previous one has ended.                      *)

\* a room number alone and an order keyword alone, besides the texts of the other
\* specifications
SeqTexts == Texts \cup {"105", "order"}

OnMessageSeq(h, from, text) ==
    /\ handlers = {}
    /\ OnMessage(h, from, text)

NextSeq ==
    \/ \E h \in HandleIds, from \in Guests, text \in SeqTexts : OnMessageSeq(h, from, text)
    \/ \E hd \in handlers : SendReturns(hd)
    \/ \E hd \in handlers : simple_sendRejects(hd)
    \/ \E hd \in handlers : Combined_sendFails(hd)
    \/ Tick

SpecSeq == InitHandling /\ [][NextSeq]_vars

-----------------------------------------------------------------------------
(* Specification of teardown during message handling (Combined.js): tenants   *)
(* are disconnected and activated again while handlers of their guests run.   *)

\* an order with its room number (two sends) and the help keyword (showHelpOptions)
TeardownTexts == {"room 105 2 margherita pizza", "help"}

\* one pairing challenge per activation
TeardownQrCodes == {"qrA"}

InitTeardown == InitHandlingOf({"Combined"})

NextTeardown ==
    \/ \E h \in HandleIds, from \in Guests, text \in TeardownTexts : OnMessage(h, from, text)
    \/ \E hd \in handlers : SendReturns(hd)
    \/ \E p \in Tenants : DisconnectRequest(p)
    \/ \E p \in Tenants : Activate(p)
    \/ \E p \in Tenants : ConnectRequest(p)
    \/ \E h \in HandleIds, qr \in TeardownQrCodes : Combined_onQr(h, qr)
    \/ \E h \in HandleIds : Combined_onReady(h)

SpecTeardown == InitTeardown /\ [][NextTeardown]_vars

-----------------------------------------------------------------------------
(* Specification of order placement: sends may fail, the rating timer runs. *)

InitPlace == InitHandlingOf(PlaceVariants)

NextPlace ==
    \/ \E h \in HandleIds, from \in Guests, text \in Texts : OnMessage(h, from, text)
    \/ \E hd \in handlers : SendReturns(hd)
    \/ \E hd \in handlers : Combined_sendFails(hd)
    \/ \E hd \in handlers : script_sendRejects(hd)
    \/ \E tm \in timers : script_timerFires(tm)
    \/ \E t \in Tenants, id \in 1..MaxClock, status \in validStatuses :
           Combined_postOrderStatus(t, id, status)
    \/ Tick

SpecPlace == InitPlace /\ [][NextPlace]_vars

-----------------------------------------------------------------------------
(* Specification of the pg conversation: the socket is open, no conversation yet. *)

InitPgHandling ==
    /\ variant = "pg"
    /\ handles = <<[tenant |-> BaileysTenant, attached |-> TRUE, conn |-> "open",
                    init |-> "settled", render |-> NoQR]>>
    /\ activeClients = [t \in Tenants |-> NoHandle]
    /\ clientStates = [t \in Tenants |-> NoState]
    /\ hotelQRs = [t \in Tenants |-> NoQR]
    /\ sock = 1
    /\ pendingStarts = 0
    /\ credStore = [t \in Tenants |-> IF t = BaileysTenant THEN "saved" ELSE "none"]
    /\ lastClosure = [t \in Tenants |-> "none"]
    /\ InitConv
    /\ InitDedupEmpty
    /\ InitOrders

NextPg ==
    \/ \E h \in HandleIds, from \in Guests, text \in PgTexts : pg_onMessage(h, from, text)
    \/ \E hd \in pgHandlers, ok \in BOOLEAN : pg_settles(hd, ok)
    \/ \E tm \in pgTimers : pg_timerFires(tm)

SpecPg == InitPgHandling /\ [][NextPg]_vars

-----------------------------------------------------------------------------
(* Specification of the parser: any message of up to MaxTokens words, with or without
   items already in the conversation's cart. *)

ParseVariants == {"Combined", "script"}

ParseTexts == UNION {[1..n -> Words] : n \in 0..MaxTokens}

ParseCarts == {<<>>, <<[name |-> "pizza", quantity |-> 1, price |-> 800]>>}

InitParse ==
    /\ variant \in ParseVariants
    /\ handles = <<>>
    /\ activeClients = [t \in Tenants |-> NoHandle]
    /\ clientStates = [t \in Tenants |-> NoState]
    /\ hotelQRs = [t \in Tenants |-> NoQR]
    /\ sock = NoHandle
    /\ pendingStarts = 0
    /\ credStore = [t \in Tenants |-> "none"]
    /\ lastClosure = [t \in Tenants |-> "none"]
    /\ InitConv
    /\ InitDedupEmpty
    /\ handlers = {}
    /\ orders = [t \in Tenants |-> <<>>]
    /\ now = 1
    /\ cartChangedBy = {}
    /\ notifications = {}
    /\ failedSends = {}
    /\ timers = {}
    /\ InitPg
    /\ parseText \in ParseTexts
    /\ parseCart \in ParseCarts
    /\ parseResult = NoParse

NextParse ==
    \/ Combined_parse
    \/ script_parse

SpecParse == InitParse /\ [][NextParse]_vars

-----------------------------------------------------------------------------
(* Message handling: properties *)

\* C6: at most one handler is in flight per guest conversation: no two suspended handlers
\* serve messages of the same guest identity at the same tenant.
C6_OneInFlightPerGuest ==
    \A a, b \in handlers : a # b => ~(a.from = b.from /\ a.tenant = b.tenant)

\* C7: a confirmation episode (one order summary and the replies to it) appends at most one
\* order to the tenant's order store.
C7_OneOrderPerEpisode ==
    \A t \in Tenants : \A i, j \in 1..Len(orders[t]) :
        i < j => orders[t][i].episode # orders[t][j].episode

\* C8: a handler that found the conversation awaiting confirmation changes the guest's
\* cart only for an affirmative or a negative text (or the reset keyword, which drops the
\* conversation).
C8_OnlyConfirmOrCancelMutateCart ==
    \A text \in cartChangedBy :
        TextInfo(text).affirm \/ TextInfo(text).negative \/ TextInfo(text).isReset

\* C9: a handler serving a message sent to tenant t works on a conversation state created
\* for tenant t.
C9_ConversationNotSharedAcrossTenants ==
    variant = "Combined" => \A hd \in handlers : objs[hd.obj].hotelPhone = hd.tenant

-----------------------------------------------------------------------------
(* Deduplicator: properties *)

\* C3: a message id that reached the deduplicator at least twice and was not evicted from
\* the window in between has started exactly one downstream handling call.
C3_HandledExactlyOnce ==
    \A id \in MsgIds : (fed[id] >= 2 /\ evictions[id] = 0) => passes[id] = 1

\* an id was delivered again while still in the window, and was handled once
C3_Witness ==
    \E id \in MsgIds : fed[id] >= 2 /\ evictions[id] = 0 /\ passes[id] = 1
                       /\ InWindow(processedMessageIds, id)

WindowIsLogSuffix ==
    /\ Len(processedMessageIds) <= Len(insertLog)
    /\ \A i \in 1..Len(processedMessageIds) :
         processedMessageIds[i] = insertLog[Len(insertLog) - Len(processedMessageIds) + i]

\* C4: the window never holds more than DedupCapacity ids, it is the most recent insertions
\* in insertion order (the oldest id leaves first), and an id passes the filter at most once
\* per stay in the window.
C4_WindowBoundedFifo ==
    /\ Len(processedMessageIds) <= DedupCapacity
    /\ WindowIsLogSuffix
    /\ \A id \in MsgIds : passes[id] <= evictions[id] + 1

\* C5: no two downstream handling calls in flight stem from the same stay of one message id
\* in the window, however deliveries and running calls interleave.
C5_CheckAndInsertAtomic ==
    \A i, j \in 1..Len(inflight) :
        i < j => ~(inflight[i].id = inflight[j].id /\ inflight[i].gen = inflight[j].gen)

\* a message is delivered again while the call handling its first delivery is in flight
C5_Witness ==
    \E i \in 1..Len(inflight) :
        /\ fed[inflight[i].id] >= 2
        /\ inflight[i].gen = evictions[inflight[i].id]
        /\ InWindow(processedMessageIds, inflight[i].id)

-----------------------------------------------------------------------------
(* Session lifecycle: properties *)

\* A live handle: its subscriptions are attached and it can still deliver events.
Live(h) == handles[h].attached /\ handles[h].conn # "closed"

LiveHandlesOf(t) == {h \in HandleIds : handles[h].tenant = t /\ Live(h)}

\* C1: after any sequence of activations, connect requests, transport events and
\* teardowns, every tenant has at most one live transport handle.
C1_AtMostOneLiveHandle ==
    \A t \in Tenants : Cardinality(LiveHandlesOf(t)) <= 1

\* A tenant whose handle was replaced: an older handle is dead and a newer one is live.
C1_Witness ==
    \E h1, h2 \in HandleIds :
        /\ h1 < h2
        /\ handles[h1].tenant = handles[h2].tenant
        /\ ~Live(h1)
        /\ Live(h2)

\* C2: once a newer handle exists for a tenant, every subscription of the tenant's
\* previous handles has been detached.
C2_PreviousHandleDetached ==
    \A h1, h2 \in HandleIds :
        (h1 < h2 /\ handles[h1].tenant = handles[h2].tenant) => ~handles[h1].attached

\* No continuation of the program is pending.
Quiescent ==
    /\ pendingStarts = 0
    /\ \A h \in HandleIds : handles[h].init # "pending"

\* C10: after a closure with reason connectionLost the session manager re-establishes a
\* connection for the tenant: once the program has nothing left to run, the tenant has
\* a live handle again and the stored credentials are as they were.
C10_ReconnectsAfterConnectionLost ==
    \A t \in Tenants :
        (lastClosure[t] = "connectionLost" /\ Quiescent) => LiveHandlesOf(t) # {}

\* Closure reasons after which the stored credentials can no longer be used.
ReauthReasons == {"loggedOut", "badSession"}

\* C11: no handle is created for a tenant whose last closure had a reason that requires
\* re-authentication while the credentials stored before that closure are still in place.
C11_NoReconnectWithOldCredentials ==
    [][\A t \in Tenants :
          ( /\ Len(handles') > Len(handles)
            /\ handles'[Len(handles')].tenant = t
            /\ lastClosure[t] \in ReauthReasons )
          => credStore[t] = "none"]_vars

\* C12: the step that handles a closure with an unrecognized reason closes the handle and
\* starts no reconnect attempt.
C12_UnknownReasonIsFatal ==
    [][\A h \in HandleIds :
          ( /\ handles[h].conn # "closed"
            /\ handles'[h].conn = "closed"
            /\ lastClosure'[handles[h].tenant] = "unknown" )
          => /\ pendingStarts' = pendingStarts
             /\ Len(handles') = Len(handles)]_vars

RECURSIVE SumOfLines(_)
\* the sum over the lines of an order of unit price times quantity
SumOfLines(lines) ==
    IF lines = <<>> THEN 0
    ELSE Head(lines).price * Head(lines).quantity + SumOfLines(Tail(lines))

C15_AdminAndGuestNotified ==
    \A n \in notifications :
        (n.to = "guest" /\ n.kind = "confirmed") =>
            \E a \in notifications :
                a.to = "admin" /\ a.tenant = n.tenant /\ a.orderId = n.orderId

\* C16: an order whose notification could not be delivered is still in the tenant's store.
C16_SendFailureKeepsOrder ==
    \A f \in failedSends : \E i \in 1..Len(orders[f.tenant]) : orders[f.tenant][i].id = f.orderId

\* a notification of a persisted order failed
C16_Witness ==
    \E f \in failedSends : \E i \in 1..Len(orders[f.tenant]) : orders[f.tenant][i].id = f.orderId

-----------------------------------------------------------------------------
(* Parser: properties *)

\* the words that are numbers written in digits
DigitWords == {"105", "2"}

\* the message names no item of the menu
NoCatalogName ==
    \A m \in 1..Len(ParseMenu) : \A i \in 1..Len(parseText) :
        LET n == Len(ParseMenu[m].words)
        IN i + n - 1 <= Len(parseText) =>
               \E k \in 1..n : parseText[i + k - 1] # ParseMenu[m].words[k]

\* C17: for a message with no digits and no name of a menu item the parser returns no
\* room number and an empty item list.
C17_NoDigitsNoNamesParseToNothing ==
    ( /\ parseResult.done
      /\ \A i \in 1..Len(parseText) : parseText[i] \notin DigitWords
      /\ NoCatalogName )
    => parseResult.roomNumber = NoRoom /\ parseResult.orderItems = <<>>

\* a message of words that are neither digits nor item names was parsed to nothing
C17_Witness ==
    /\ parseResult.done
    /\ parseText = <<"want", "chicken", "two">>
    /\ parseResult.roomNumber = NoRoom
    /\ parseResult.orderItems = <<>>

\* the quantity a word states when it stands before an item name
ExplicitQuantity == [w \in {"2", "two", "105"} |-> IF w = "105" THEN 105 ELSE 2]

\* C18: a message "<quantity> <item> <quantity> <item>" naming two distinct items, in either
\* order, is parsed to exactly these two items with these quantities.
C18_AllItemsWithTheirQuantities ==
    ( /\ parseResult.done
      /\ Len(parseText) = 4
      /\ parseText[1] \in DOMAIN ExplicitQuantity /\ parseText[3] \in DOMAIN ExplicitQuantity
      /\ {parseText[2], parseText[4]} = {"burger", "pizza"} )
    => {<<parseResult.orderItems[i].name, parseResult.orderItems[i].quantity>> :
            i \in 1..Len(parseResult.orderItems)}
         = {<<parseText[2], ExplicitQuantity[parseText[1]]>>,
            <<parseText[4], ExplicitQuantity[parseText[3]]>>}

\* C19: "chicken burger", with the items "burger" and "chicken burger" on the menu, is
\* parsed to the longer item alone, with quantity 1.
C19_LongestNameOnly ==
    (parseResult.done /\ parseText = <<"chicken", "burger">>)
    => /\ Len(parseResult.orderItems) = 1
       /\ parseResult.orderItems[1].name = "chicken burger"
       /\ parseResult.orderItems[1].quantity = 1

\* C20: with items in the cart, a message that is exactly a number of three or four digits
\* is parsed to that room number, intent provide_room_only and no items.
C20_DigitsOnlyWithCartIsRoom ==
    ( /\ parseResult.done
      /\ parseCart # <<>>
      /\ Len(parseText) = 1 /\ parseText[1] = "105" )
    => /\ parseResult.roomNumber = "105"
       /\ parseResult.intent = "provide_room_only"
       /\ parseResult.orderItems = <<>>

\* Combined.js parsed "105" for a conversation with items in its cart
C20_Witness ==
    /\ variant = "Combined"
    /\ parseResult.done
    /\ parseCart # <<>>
    /\ parseText = <<"105">>
    /\ parseResult.intent = "provide_room_only"
    /\ parseResult.roomNumber = "105"

\* the intent the precedence order of the specification gives for the parsed message
IntentByPrecedence ==
    IF includesAny(parseText, OrderKeywords) \/ parseResult.orderItems # <<>> THEN "order"
    ELSE IF includesAny(parseText, MenuKeywords) THEN "menu"
    ELSE IF includesAny(parseText, GreetingKeywords) THEN "greeting"
    ELSE IF includesAny(parseText, ThanksKeywords) THEN "thanks"
    ELSE IF parseResult.roomNumber # NoRoom /\ parseResult.orderItems = <<>>
    THEN "provide_room_only"
    ELSE "unknown"

\* C21: the intent of every parsed message follows the precedence order, menu, greeting,
\* thanks, provide_room_only, unknown.
C21_IntentPrecedence ==
    parseResult.done => parseResult.intent = IntentByPrecedence

-----------------------------------------------------------------------------
(* Conversation: further properties *)

\* the conversation state placeOrder's caller leaves behind once the order is confirmed
OrderContext(tm) == [tm.st EXCEPT !.state = "mainMenu", !.tempOrder = 0]

\* C22: a rating timer that fires after the guest's state has changed away from the one
\* left by the confirmed order does nothing: no send is started and no state is written.
C22_StaleRatingPromptIsNoOp ==
    [][\A tm \in pgTimers :
          (tm \notin pgTimers' /\ pgStates[tm.from] # OrderContext(tm))
          => pgHandlers' = pgHandlers /\ pgStates' = pgStates]_vars

\* C23: no two orders in a tenant's store have the same id.
C23_OrderIdsUnique ==
    \A t \in Tenants : \A i, j \in 1..Len(orders[t]) :
        i < j => orders[t][i].id # orders[t][j].id

\* Pending, then Confirmed, then Done or Rejected
StatusRank == [st \in validStatuses |->
                  IF st = "Pending" THEN 0 ELSE IF st = "Confirmed" THEN 1 ELSE 2]

\* C24: no step moves an order of the store to an earlier status.
C24_StatusMonotonic ==
    [][\A t \in Tenants : \A i \in 1..Len(orders[t]) :
          i <= Len(orders'[t]) =>
              StatusRank[orders'[t][i].status] >= StatusRank[orders[t][i].status]]_vars

\* C25: when the handler of an affirmative reply ends after its order was placed and its
\* sends succeeded, the guest's conversation records that order as awaiting rating, with an
\* empty cart.
C25_ConfirmedOrderAwaitsRating ==
    [][\A hd \in handlers :
          ( /\ hd.pc \in {"placed", "placedGuest"}
            /\ hd \notin handlers'
            /\ failedSends' = failedSends )
          => /\ userStates'[hd.from] # 0
             /\ objs'[userStates'[hd.from]].awaitingRating
             /\ objs'[userStates'[hd.from]].lastOrderId = hd.orderId
             /\ objs'[userStates'[hd.from]].items = EmptyCart]_vars

ConfirmationPrompts == {"reprompt", "summary"}

\* C27: a handler that found the conversation awaiting confirmation and got a text that is
\* neither affirmative nor negative (nor the reset keyword) sends a prompt naming the
\* expected replies and places no order.
C27_UnrecognizedReplyReprompts ==
    \A hd \in handlers :
        ( /\ hd.awc0
          /\ ~TextInfo(hd.text).affirm /\ ~TextInfo(hd.text).negative
          /\ ~TextInfo(hd.text).isReset )
        => hd.pc \in ConfirmationPrompts /\ hd.orderId = 0

\* C28: when the handler of the reset keyword has ended, the guest has no conversation
\* state left: the next message starts from the initial state.
C28_ResetDropsConversation ==
    [][\A hd \in pgHandlers :
          (hd.text = "reset" /\ \A x \in pgHandlers' : x.id # hd.id)
          => pgStates'[hd.from] \in {NoPgState, PgInitial}]_vars

\* the names of the items of a cart
CartNames(cart) == {cart[i].name : i \in 1..Len(cart)}

\* C29: a step changes a guest's cart only by adding to it or by emptying it: items put
\* into the cart by earlier messages stay when a later message adds items.
C29_CartAccumulates ==
    [][\A g \in Guests :
          LET before == Cart(userStates, objs, g)
              after == Cart(userStates', objs', g)
          IN after = EmptyCart \/ CartNames(before) \subseteq CartNames(after)]_vars

\* the texts that are a number
NumericTexts == {"105", "1"}

-----------------------------------------------------------------------------
(* Rating, pairing challenge, teardown: properties *)

\* texts handleRating takes as a rating from 1 to 5
ValidRatings == {"1", "2", "3", "4", "5"}

\* C31: a message of a guest who is awaiting rating is handled as a rating: an integer
\* from 1 to 5 is forwarded to the admin and, when its handler ends, the guest is in the
\* main menu; any other text is not forwarded, is answered with the rating prompt and
\* leaves the guest awaiting rating.
C31_RatingForwardedOrReprompted ==
    [][/\ \A hd \in pgHandlers' :
             (/\ hd.id # 0
              /\ hd.id \notin {h.id : h \in pgHandlers}
              /\ hd.st.state = "awaitingRating")
             => IF pg_parseInt(hd.text) \in ValidRatings
                THEN hd.pc = "rateAdmin"
                ELSE hd.pc = "rateReprompt" /\ pgStates'[hd.from].state = "awaitingRating"
       /\ \A hd \in pgHandlers :
             (/\ hd.pc \in {"rateAdmin", "rateGuest"}
              /\ hd.id \notin {h.id : h \in pgHandlers'})
             => pgStates'[hd.from].state = "mainMenu"]_vars

\* the tenant's session is connected: Combined.js keeps a flag, the PostgreSQL bot's
\* current socket has reported connection 'open'
TenantConnected(t) ==
    IF variant = "Combined" THEN isClientConnected(Store, t)
    ELSE t = BaileysTenant /\ sock # NoHandle /\ handles[sock].conn = "open"

\* C32: no pairing challenge is exposed for a tenant that is connected.
C32_NoChallengeWhileConnected ==
    \A t \in Tenants : TenantConnected(t) => hotelQRs[t] = NoQR

\* C33: activating a tenant that is connected, by startBotForHotel or by the connect
\* route, changes nothing: the handle list, the registered handle (which is the one
\* returned), the connection state, the pairing challenge and the guest conversations
\* are the same after as before.
C33_ActivateConnectedIsNoOp ==
    \A t \in Tenants :
        (variant = "Combined" /\ TenantConnected(t))
        => /\ startBotForHotel(Store, t) = Store
           /\ postConnect(Store, t) = Store

\* a connected tenant with a registered handle and a guest conversation
C33_Witness ==
    /\ variant = "Combined"
    /\ \E t \in Tenants :
          /\ TenantConnected(t)
          /\ activeClients[t] # NoHandle
          /\ \E g \in Guests : userStates[g] # 0 /\ objs[userStates[g]].hotelPhone = t

\* C34: with messages handled one after the other, a conversation that is awaiting
\* confirmation has its room number set and a non-empty cart (the object in the map and
\* any object a handler holds).
C34_AwaitingConfirmationIsComplete ==
    \A o \in ObjIds :
        (objs[o].used /\ objs[o].awaitingConfirmation)
        => objs[o].room # NoRoom /\ objs[o].items # EmptyCart

\* a stored conversation is awaiting confirmation after a reply that was handled to its end
C34_Witness ==
    /\ handlers = {}
    /\ delivered >= 2
    /\ \E g \in Guests : userStates[g] # 0 /\ objs[userStates[g]].awaitingConfirmation

\* C35: when the send of an order notification fails after the order was stored, the
\* guest's conversation is no longer awaiting confirmation and holds no cart.
C35_FailedNotificationLeavesConfirmation ==
    [][\A hd \in handlers :
          (/\ hd.pc \in PlacementPcs
           /\ [tenant |-> hd.tenant, orderId |-> hd.orderId] \in failedSends' \ failedSends)
          => LET cur == userStates'[hd.from] IN
             \/ cur = 0
             \/ ~objs'[cur].awaitingConfirmation /\ objs'[cur].items = EmptyCart]_vars

\* C36: when the initialization of a handle settles after a newer handle was registered
\* for its tenant, the newer handle stays registered, with its listeners attached and its
\* connection as it was.
C36_SupersededFailureSparesCurrent ==
    [][\A h \in HandleIds :
          LET t == handles[h].tenant
              cur == activeClients[t]
          IN (/\ handles[h].init = "pending"
              /\ handles'[h].init = "settled"
              /\ cur # NoHandle
              /\ cur # h)
             => /\ activeClients'[t] = cur
                /\ handles'[cur] = handles[cur]]_vars

\* the quantity in the guest's cart (0: the conversation holds no cart)
PgCart(ps, tos, g) == IF ps[g].tempOrder = 0 THEN 0 ELSE tos[ps[g].tempOrder]

\* C37: when the callback of the rating timer ends, the guest's room number and cart are
\* those the conversation held just before.
C37_RatingPromptKeepsRoomAndCart ==
    [][\A hd \in pgHandlers :
          (hd.pc = "timerSend" /\ hd \notin pgHandlers')
          => /\ pgStates'[hd.from].room = pgStates[hd.from].room
             /\ PgCart(pgStates', tempOrders', hd.from) = PgCart(pgStates, tempOrders, hd.from)]_vars

\* the guests whose stored conversation a handler of tenant t is working on
ServedBy(t) ==
    {hd.from : hd \in {x \in handlers : x.tenant = t /\ userStates[x.from] = x.obj}}

\* C38: tearing down tenant p removes p's handle, connection state, pairing challenge and
\* the conversations created for p, and leaves every other tenant's handle, connection
\* state and pairing challenge, and every conversation that was created for another
\* tenant or that another tenant's handler is working on, as they were.
C38_TeardownIsolated ==
    variant = "Combined" =>
    \A p \in Tenants :
        LET D == disconnectBotForHotel(Store, p) IN
        /\ D.activeClients[p] = NoHandle
        /\ D.clientStates[p] = NoState
        /\ D.hotelQRs[p] = NoQR
        /\ \A g \in Guests :
              (userStates[g] # 0 /\ objs[userStates[g]].hotelPhone = p /\ g \notin ServedBy(p))
              => D.userStates[g] = 0
        /\ \A t \in Tenants \ {p} :
              /\ D.activeClients[t] = activeClients[t]
              /\ D.clientStates[t] = clientStates[t]
              /\ D.hotelQRs[t] = hotelQRs[t]
              /\ activeClients[t] # NoHandle
                 => D.handles[activeClients[t]] = handles[activeClients[t]]
              /\ \A g \in Guests :
                    (userStates[g] # 0 /\ (objs[userStates[g]].hotelPhone = t \/ g \in ServedBy(t)))
                    => D.userStates[g] = userStates[g] /\ D.objs[userStates[g]] = objs[userStates[g]]

====
